---- MODULE Spec2Model ----
(***************************************************************************)
(* Verification model of macabe32/polypaper.                               *)
(*                                                                         *)
(*  - polytrader: the paper ledger (accounts row, trades table, runs       *)
(*    table), one scan cycle (engine.scan_once), settlement                *)
(*    (db.close_market_positions) and mark-to-market                       *)
(*    (engine.mark_open_positions), with the sizers, the fill engine and   *)
(*    the estimator's side selection they call.                            *)
(*  - spread_monitor: the long running loop (main), one cycle (run_scan)   *)
(*    and the gate (maybe_execute) with its cross-cycle gate_state.        *)
(*                                                                         *)
(* Python floats are modelled as exact rationals <<numerator, denominator>>*)
(* (denominator > 0, lowest terms): rounding error is outside the model.   *)
(* What the code obtains from the network (mid-prices, order books, the    *)
(* log-normal probability computed from the Kraken quotes, the markets     *)
(* search, the runtime configuration file) is an input drawn from a small  *)
(* set.                                                                    *)
(***************************************************************************)
EXTENDS Integers, Sequences, FiniteSets, TLC

\* Python's None (SQL NULL): NULL where a number or a time is expected, None
\* where an object is
NULL == <<>>
None == [none |-> TRUE]

-----------------------------------------------------------------------------
(* Exact arithmetic standing for Python float arithmetic. *)

Abs(x) == IF x < 0 THEN -x ELSE x

RECURSIVE Gcd(_, _)
Gcd(a, b) == IF b = 0 THEN a ELSE Gcd(b, a % b)

\* the rational n/d (d > 0) in lowest terms
Reduced(n, d, g) == <<n \div g, d \div g>>
Rat(n, d) == Reduced(n, d, Gcd(Abs(n), d))

Zero == <<0, 1>>
One == <<1, 1>>

\* x and y over their least common denominator: <<numerator of x, of y, lcd>>
Over(x, y, g) == <<x[1] * (y[2] \div g), y[1] * (x[2] \div g), (x[2] \div g) * y[2]>>
Common(x, y) == Over(x, y, Gcd(x[2], y[2]))

\* the operands of an operation are evaluated before it is applied
Floats == Int \X Nat

Sum(c) == Rat(c[1] + c[2], c[3])
Difference(c) == Rat(c[1] - c[2], c[3])
Plus == [x \in Floats, y \in Floats |-> Sum(Common(x, y))]
Minus == [x \in Floats, y \in Floats |-> Difference(Common(x, y))]
Add(x, y) == Plus[x, y]
Sub(x, y) == Minus[x, y]
Crossed(x, y, g, h) == Rat((x[1] \div g) * (y[1] \div h), (x[2] \div h) * (y[2] \div g))
Times == [x \in Floats, y \in Floats |->
            Crossed(x, y, Gcd(Abs(x[1]), y[2]), Gcd(Abs(y[1]), x[2]))]
Mul(x, y) == Times[x, y]
\* x / y for y # 0
Div(x, y) == IF y[1] > 0 THEN Mul(x, <<y[2], y[1]>>) ELSE Mul(x, <<-y[2], -y[1]>>)
Below(c) == c[1] < c[2]
NotAbove(c) == c[1] <= c[2]
Less == [x \in Floats, y \in Floats |-> Below(Common(x, y))]
LessEqual == [x \in Floats, y \in Floats |-> NotAbove(Common(x, y))]
Lt(x, y) == Less[x, y]
Le(x, y) == LessEqual[x, y]
\* Python's min(x, y) and max(x, y)
Smaller == [x \in Floats, y \in Floats |-> IF Below(Common(y, x)) THEN y ELSE x]
Larger == [x \in Floats, y \in Floats |-> IF Below(Common(x, y)) THEN y ELSE x]
Min(x, y) == Smaller[x, y]
Max(x, y) == Larger[x, y]

RECURSIVE SumSeq(_)
SumSeq(s) == IF s = <<>> THEN Zero ELSE Add(Head(s), SumSeq(Tail(s)))

-----------------------------------------------------------------------------
(* polytrader/sizers: size(signal, cash) -> SizedOrder | None *)

\* the sizer objects as their constructors leave them
FixedSizer(usd) == [name |-> "fixed", usd |-> usd, slots |-> 1,
                    fraction |-> Zero, max_usd |-> Zero]
EqualWeightSizer(slots) == [name |-> "equal_weight", usd |-> Zero,
                            slots |-> IF slots > 1 THEN slots ELSE 1,
                            fraction |-> Zero, max_usd |-> Zero]
KellySizer(fraction, max_usd) == [name |-> "kelly", usd |-> Zero, slots |-> 1,
                                  fraction |-> Min(Max(fraction, Zero), One),
                                  max_usd |-> Max(max_usd, Zero)]

KellyQFloor == <<1, 1000000>>
KellyQCeil == <<999999, 1000000>>

\* f* = max(0, min(1, (p - q) / (1 - q))) with q clamped into (0, 1), p into [0, 1]
FullKelly(market_price, model_price) ==
    LET q == Min(Max(market_price, KellyQFloor), KellyQCeil)
        p == Min(Max(model_price, Zero), One)
    IN  Max(Zero, Min(One, Div(Sub(p, q), Sub(One, q))))

SizedOrder(sizer, signal, order_usd) ==
    [sizer |-> sizer.name, side |-> signal.side, token_id |-> signal.token_id,
     order_usd |-> order_usd]

\* FixedSize without the cap at the available cash
FixedSizeUncapped(sizer, signal, cash) ==
    LET order_usd == sizer.usd
    IN  IF Le(order_usd, Zero) THEN None ELSE SizedOrder(sizer, signal, order_usd)

FixedSize(sizer, signal, cash) ==
    LET order_usd == Min(sizer.usd, Max(cash, Zero))
    IN  IF Le(order_usd, Zero) THEN None ELSE SizedOrder(sizer, signal, order_usd)

EqualWeightSize(sizer, signal, cash) ==
    LET order_usd == Div(Max(cash, Zero), <<sizer.slots, 1>>)
    IN  IF Le(order_usd, Zero) THEN None ELSE SizedOrder(sizer, signal, order_usd)

\* KellySize without the cap at the configured maximum
KellySizeWithoutMaximum(sizer, signal, cash) ==
    LET full_kelly == FullKelly(signal.market_price, signal.model_price)
        scaled == Mul(sizer.fraction, full_kelly)
        order_usd == Min(Mul(Max(cash, Zero), scaled), Max(cash, Zero))
    IN  IF Le(order_usd, Zero) THEN None ELSE SizedOrder(sizer, signal, order_usd)

KellySize(sizer, signal, cash) ==
    LET full_kelly == FullKelly(signal.market_price, signal.model_price)
        scaled == Mul(sizer.fraction, full_kelly)
        order_usd == Min(Min(Mul(Max(cash, Zero), scaled), sizer.max_usd), Max(cash, Zero))
    IN  IF Le(order_usd, Zero) THEN None ELSE SizedOrder(sizer, signal, order_usd)

\* dynamic dispatch of sizer.size(sig, cash=cash)
Size(sizer, signal, cash) ==
    CASE sizer.name = "fixed" -> FixedSize(sizer, signal, cash)
      [] sizer.name = "equal_weight" -> EqualWeightSize(sizer, signal, cash)
      [] sizer.name = "kelly" -> KellySize(sizer, signal, cash)

-----------------------------------------------------------------------------
(* polytrader/fill_engine.py: FillEngine.simulate_buy *)

\* remaining_usd <= 1e-9, without leaving 32-bit integers
AtMostDust(x) == x[1] <= 0 \/ (x[2] \div x[1]) >= 1000000000

\* Usable without the check of the size
UsablePriceOnly(lvl) == lvl.price # NULL /\ lvl.size # NULL /\ Lt(Zero, lvl.price)

\* a level whose price and size both convert to float; NULL stands for a
\* value that raises in float(lvl["price"]) / float(lvl["size"])
Readable(lvl) == lvl.price # NULL /\ lvl.size # NULL
Usable(lvl) == Readable(lvl) /\ Lt(Zero, lvl.price) /\ Lt(Zero, lvl.size)

\* WalkAsks taking each level whole: take_usd = level_capacity_usd, without
\* the min with remaining_usd
RECURSIVE WalkAsksWholeLevel(_, _)
WalkAsksWholeLevel(asks, acc) ==
    IF asks = <<>> \/ acc.stop THEN acc
    ELSE LET lvl == Head(asks) IN
         IF ~Usable(lvl) THEN WalkAsksWholeLevel(Tail(asks), acc)
         ELSE LET take_usd == Mul(lvl.price, lvl.size)
                  remaining_usd == Sub(acc.remaining_usd, take_usd)
              IN  WalkAsksWholeLevel(Tail(asks),
                           [remaining_usd |-> remaining_usd,
                            spent |-> Add(acc.spent, take_usd),
                            shares |-> Add(acc.shares, Div(take_usd, lvl.price)),
                            levels |-> acc.levels + 1,
                            stop |-> AtMostDust(remaining_usd)])

\* the for loop over asks: acc = [remaining_usd, spent, shares, levels, stop]
RECURSIVE WalkAsks(_, _)
WalkAsks(asks, acc) ==
    IF asks = <<>> \/ acc.stop THEN acc
    ELSE LET lvl == Head(asks) IN
         IF ~Usable(lvl) THEN WalkAsks(Tail(asks), acc)
         ELSE LET level_capacity_usd == Mul(lvl.price, lvl.size)
                  take_usd == Min(acc.remaining_usd, level_capacity_usd)
                  take_shares == Div(take_usd, lvl.price)
                  remaining_usd == Sub(acc.remaining_usd, take_usd)
              IN  WalkAsks(Tail(asks),
                           [remaining_usd |-> remaining_usd,
                            spent |-> Add(acc.spent, take_usd),
                            shares |-> Add(acc.shares, take_shares),
                            levels |-> acc.levels + 1,
                            stop |-> AtMostDust(remaining_usd)])

\* SimulateBuy with the average price taken over the requested amount
SimulateBuyAvgOfRequest(book, usd_amount) ==
    IF ~book.is_dict \/ ~book.asks_is_list \/ Le(usd_amount, Zero) THEN None
    ELSE LET w == WalkAsks(book.asks, [remaining_usd |-> usd_amount, spent |-> Zero,
                                       shares |-> Zero, levels |-> 0, stop |-> FALSE])
         IN  IF Le(w.shares, Zero) \/ Le(w.spent, Zero) THEN None
             ELSE [avg_price |-> Div(usd_amount, w.shares), shares |-> w.shares,
                   spent_usd |-> w.spent, levels_used |-> w.levels]

\* SimulateBuy returning nothing unless the whole request is filled
SimulateBuyFullOnly(book, usd_amount) ==
    IF ~book.is_dict \/ ~book.asks_is_list \/ Le(usd_amount, Zero) THEN None
    ELSE LET w == WalkAsks(book.asks, [remaining_usd |-> usd_amount, spent |-> Zero,
                                       shares |-> Zero, levels |-> 0, stop |-> FALSE])
         IN  IF Le(w.shares, Zero) \/ Lt(w.spent, usd_amount) THEN None
             ELSE [avg_price |-> Div(w.spent, w.shares), shares |-> w.shares,
                   spent_usd |-> w.spent, levels_used |-> w.levels]

\* book: [is_dict, asks_is_list, asks]; asks is the list under "asks" (empty
\* when there is none). The FillResult without its slippage_bps, which is
\* SlippageBps below.
SimulateBuy(book, usd_amount) ==
    IF ~book.is_dict \/ ~book.asks_is_list \/ Le(usd_amount, Zero) THEN None
    ELSE LET w == WalkAsks(book.asks, [remaining_usd |-> usd_amount, spent |-> Zero,
                                       shares |-> Zero, levels |-> 0, stop |-> FALSE])
         IN  IF Le(w.shares, Zero) \/ Le(w.spent, Zero) THEN None
             ELSE [avg_price |-> Div(w.spent, w.shares), shares |-> w.shares,
                   spent_usd |-> w.spent, levels_used |-> w.levels]

\* x < 1e-9, without leaving 32-bit integers
BelowDust(x) == x[1] <= 0 \/ ((x[2] - 1) \div x[1]) >= 1000000000

\* SlippageBps with the ratio upside down: top over average
SlippageBpsOfTopOverAvg(book, usd_amount) ==
    LET avg_price == SimulateBuy(book, usd_amount).avg_price
        top_ask == IF Head(book.asks).price # NULL
                   THEN Head(book.asks).price ELSE avg_price
        top == IF BelowDust(top_ask) THEN <<1, 1000000000>> ELSE top_ask
    IN  Mul(Sub(Div(top, avg_price), One), <<10000, 1>>)

\* lines 36-42: slippage_bps of the fill SimulateBuy(book, usd_amount) returns
SlippageBps(book, usd_amount) ==
    LET avg_price == SimulateBuy(book, usd_amount).avg_price
        top_ask == IF Head(book.asks).price # NULL
                   THEN Head(book.asks).price ELSE avg_price
        top == IF BelowDust(top_ask) THEN <<1, 1000000000>> ELSE top_ask
    IN  Mul(Sub(Div(avg_price, top), One), <<10000, 1>>)

-----------------------------------------------------------------------------
(* polytrader/models/kelly_gbm.py: KellyGBMModel.evaluate *)

SecondsPerYear == 31536000

\* _time_to_expiry_years: end_date = [iso, secs], iso whether the date
\* parses, secs the signed seconds from now to it
TimeToExpiryYears(end_date) ==
    IF ~end_date.iso THEN <<1, 50>>
    ELSE Rat(IF end_date.secs > 60 THEN end_date.secs ELSE 60, SecondsPerYear)

Signal(side, token_id, market_price, model_price) ==
    [side |-> side, token_id |-> token_id, market_price |-> market_price,
     model_price |-> model_price, edge |-> Sub(model_price, market_price)]

TokenOf(slug, side) == <<slug, side>>

\* market: the MarketSnapshot [slug, yes_mid, no_mid, end_date, parsed, kind]
\* (parsed, kind: what _parse_target makes of its question);
\* p_above: the log-normal probability min(max(_norm_cdf(z), 0), 1) the code
\* computes from the Kraken spot and volatility (an input of the model)
Evaluate(min_edge, market, p_above) ==
    IF ~market.parsed THEN None
    ELSE LET t == TimeToExpiryYears(market.end_date) IN
    IF Le(t, Zero) THEN None
    ELSE LET p_yes == IF market.kind = "below_or_hit" THEN Sub(One, p_above) ELSE p_above
             p_no == Sub(One, p_yes)
             sig == IF Le(market.yes_mid, p_yes)
                    THEN Signal("buy_yes", TokenOf(market.slug, "buy_yes"), market.yes_mid, p_yes)
                    ELSE Signal("buy_no", TokenOf(market.slug, "buy_no"), market.no_mid, p_no)
         IN  IF Lt(sig.edge, min_edge) THEN None ELSE sig

-----------------------------------------------------------------------------
(* spread_monitor.py: configuration *)

RuntimeConfigKeys ==
    {"query", "limit", "crypto_terms", "min_liquidity_usd", "min_volume_usd",
     "require_accepting_orders", "require_orderbook", "bankroll_usd", "kelly_fraction",
     "max_paper_order_usd", "live_order_usd", "threshold", "fee_bps", "slippage_bps",
     "gas_usd", "paper_only", "execute_live", "confirm_live", "min_persist_runs",
     "signal_cooldown_runs", "min_improvement_bps"}

\* apply_runtime_config: raw is the JSON object of the config file (the empty
\* function when there is no file); args is the argparse namespace
ApplyRuntimeConfig(a, raw) ==
    [k \in DOMAIN a |-> IF k \in DOMAIN raw /\ k \in RuntimeConfigKeys THEN raw[k] ELSE a[k]]

\* main, lines 716-718
ForcePaper(a) ==
    IF a.paper_only THEN [a EXCEPT !.execute_live = FALSE, !.confirm_live = FALSE] ELSE a

LiveOrderCeiling == 5

\* ValidateArgs without the ceiling on live_order_usd
ValidateArgsWithoutCeiling(a) ==
    /\ Le(Zero, a.kelly_fraction) /\ Le(a.kelly_fraction, One)
    /\ ~(a.paper_only /\ a.execute_live)
    /\ ~(a.min_persist_runs < 1)
    /\ ~(a.signal_cooldown_runs < 0)
    /\ ~Lt(a.min_improvement_bps, Zero)

\* validate_args: TRUE when it returns, FALSE when it raises SystemExit
ValidateArgs(a) ==
    /\ ~Lt(<<LiveOrderCeiling, 1>>, a.live_order_usd)
    /\ Le(Zero, a.kelly_fraction) /\ Le(a.kelly_fraction, One)
    /\ ~(a.paper_only /\ a.execute_live)
    /\ ~(a.min_persist_runs < 1)
    /\ ~(a.signal_cooldown_runs < 0)
    /\ ~Lt(a.min_improvement_bps, Zero)

-----------------------------------------------------------------------------
(* spread_monitor.py: get_reference_market and evaluate_market *)

DaysPerYear == 365

\* quotes = [spot, perp, sigma], each the value its source returns or NULL
\* when the source fails; the result is None when the call raises
RefMarket(spot_px, perp_px, perp_source, sigma_annual) ==
    [spot |-> spot_px, perp |-> perp_px,
     basis_annual |-> Mul(Sub(Div(perp_px, spot_px), One), <<DaysPerYear, 1>>),
     sigma_annual |-> sigma_annual, perp_source |-> perp_source]

\* GetReferenceMarket assuming a volatility of 0.5 when its source fails
GetReferenceMarketAssumingSigma(quotes) ==
    IF quotes.spot = NULL THEN None
    ELSE IF quotes.perp = NULL
    THEN RefMarket(quotes.spot, quotes.spot, "fallback_equals_spot",
                   IF quotes.sigma = NULL THEN <<1, 2>> ELSE quotes.sigma)
    ELSE RefMarket(quotes.spot, quotes.perp, "bybit_linear",
                   IF quotes.sigma = NULL THEN <<1, 2>> ELSE quotes.sigma)

GetReferenceMarket(quotes) ==
    IF quotes.spot = NULL THEN None
    ELSE IF quotes.sigma = NULL THEN None
    ELSE IF quotes.perp = NULL
    THEN RefMarket(quotes.spot, quotes.spot, "fallback_equals_spot", quotes.sigma)
    ELSE RefMarket(quotes.spot, quotes.perp, "bybit_linear", quotes.sigma)

\* what one market brings to evaluate_market: m = [slug, parsed, hex_ok,
\* yes_mid, no_mid, kind, prob_above]; parsed: parse_binary_price_target found
\* a strike; hex_ok: its token ids convert in to_decimal_token_id; yes_mid and
\* no_mid: the midpoint map's entries (NULL when missing); prob_above: what
\* probability_price_above computes from the reference market
EvaluateRaises(m) == m.parsed /\ ~m.hex_ok

\* lines 324-326: q and pr are the clamped market and model price
KellyFull ==
    [q \in Floats, pr \in Floats |->
        Max(Zero, Min(One, Div(Sub(pr, q), Max(Sub(One, q), KellyQFloor))))]
KellyFullFraction(q, pr) == KellyFull[q, pr]

\* lines 327-328
SuggestedOrderUsd ==
    [bankroll_usd \in Floats, kelly_fraction \in Floats, kelly_full \in Floats |->
        Mul(bankroll_usd, Max(Zero, Min(One, Mul(kelly_fraction, kelly_full))))]

\* lines 329-332
OrderUsd(a, kelly_full) ==
    IF a.execute_live
    THEN Min(a.live_order_usd,
             SuggestedOrderUsd[a.bankroll_usd, a.kelly_fraction, kelly_full])
    ELSE Min(a.max_paper_order_usd,
             SuggestedOrderUsd[a.bankroll_usd, a.kelly_fraction, kelly_full])

\* lines 334-336 and line 511: fee_frac + gas_frac + slip
TotalCost ==
    [fee_bps \in Floats, gas_usd \in Floats, slippage_bps \in Floats, order_usd \in Floats |->
        Add(Add(Div(Max(fee_bps, Zero), <<10000, 1>>),
                Max(Div(gas_usd, Max(order_usd, <<1, 100>>)), Zero)),
            Div(slippage_bps, <<10000, 1>>))]

\* line 337 and the returned dict
EvaluatedAt(m, a, side, gross_edge, order_usd) ==
    [slug |-> m.slug, choice |-> side, token |-> TokenOf(m.slug, side),
     order_usd |-> order_usd,
     gross_edge |-> gross_edge,
     net_edge |-> Sub(gross_edge,
                      TotalCost[a.fee_bps, a.gas_usd, a.slippage_bps, order_usd]),
     persist_runs |-> 0]

\* lines 321-337 for the chosen side
EvaluateSide(m, a, side, market_px, model_px) ==
    EvaluatedAt(m, a, side, Sub(model_px, market_px),
                OrderUsd(a, KellyFullFraction(Min(Max(market_px, KellyQFloor), KellyQCeil),
                                              Min(Max(model_px, Zero), One))))

\* lines 308-319: pick the side with positive model edge
PickSide(m, a, model_yes) ==
    IF Lt(m.yes_mid, model_yes)
    THEN EvaluateSide(m, a, "buy_yes", m.yes_mid, model_yes)
    ELSE EvaluateSide(m, a, "buy_no", m.no_mid, Sub(One, model_yes))

\* evaluate_market: None, or the evaluation
EvaluateMarket(m, a) ==
    IF ~m.parsed THEN None
    ELSE IF m.yes_mid = NULL \/ m.no_mid = NULL THEN None
    ELSE PickSide(m, a, IF m.kind = "below_or_hit" THEN Sub(One, m.prob_above)
                        ELSE m.prob_above)

-----------------------------------------------------------------------------
(* State *)

VARIABLES
    account,    \* polytrader accounts row: [starting_bankroll, cash]
    trades,     \* polytrader trades table, trades[i].id = i
    runs,       \* polytrader runs table: the number of rows
    clock,      \* utc_now_iso() as a logical time
    sizer,      \* the sizer object the ledger's scans are run with
    scan,       \* the locals of the scan_once call in progress
    emitted     \* what the last polytrader command printed

pvars == <<account, trades, runs, clock, sizer, scan, emitted>>

VARIABLES
    args,          \* spread_monitor: the argparse namespace of main
    env,           \* what the deployment's surroundings present to the monitor
    gate_state,    \* main's gate_state
    monitor_runs,  \* main's runs
    main_pc,       \* main: "start", "loop", "returned" or "exited" (SystemExit)
    cycle,         \* what the last pass of main's loop logged, ranked and submitted
    journal        \* the log file over the passes so far: per pass, how it ended
                   \* and the markets it evaluated at or above its threshold

mvars == <<args, env, gate_state, monitor_runs, main_pc, cycle, journal>>

VARIABLES
    call           \* a call of a sizer or of the fill engine on its own: the
                   \* arguments and what it returned

-----------------------------------------------------------------------------
(* Bounds and inputs of the ledger model *)

\* commands that stamp a time (scan, resolve) in one behaviour
MaxClock == 3

Bankroll == <<100, 1>>
Slugs == {"btc-100k", "btc-dip"}
Sides == {"buy_yes", "buy_no"}
Tokens == {TokenOf(slug, side) : slug \in Slugs, side \in Sides}

\* the sizers a ledger is scanned with (--sizer, --sizer-config)
Sizers == {FixedSizer(<<80, 1>>), EqualWeightSizer(2), KellySizer(<<1, 2>>, <<250, 1>>)}

\* default of KellyGBMModel.min_edge, 0.002
MinEdge == <<1, 500>>

\* the ordered snapshots a scan obtains (markets passing the liquidity and
\* volume filter whose two midpoints could be fetched)
SnapshotLists == {<<"btc-100k", "btc-dip">>, <<"btc-dip">>}

\* what the estimator sees for one market: question parse, end date, the
\* snapshot's mids and the model probability
MarketInputs ==
    {[parsed |-> TRUE, kind |-> "above_or_hit", end_date |-> [iso |-> TRUE, secs |-> 86400],
      yes_mid |-> <<2, 5>>, no_mid |-> <<3, 5>>, p_above |-> <<7, 10>>],
     [parsed |-> TRUE, kind |-> "below_or_hit", end_date |-> [iso |-> TRUE, secs |-> 86400],
      yes_mid |-> <<2, 5>>, no_mid |-> <<3, 5>>, p_above |-> <<4, 5>>],
     [parsed |-> TRUE, kind |-> "above_or_hit", end_date |-> [iso |-> TRUE, secs |-> 86400],
      yes_mid |-> <<2, 5>>, no_mid |-> <<3, 5>>, p_above |-> <<2, 5>>],
     [parsed |-> FALSE, kind |-> "above_or_hit", end_date |-> [iso |-> TRUE, secs |-> 86400],
      yes_mid |-> <<2, 5>>, no_mid |-> <<3, 5>>, p_above |-> <<7, 10>>]}

Level(price, size) == [price |-> price, size |-> size]

Book(asks) == [is_dict |-> TRUE, asks_is_list |-> TRUE, asks |-> asks]
\* what fetch_book returns for a token: None, or a dict
Books(token_id) ==
    {None,
     [is_dict |-> TRUE, asks_is_list |-> FALSE, asks |-> <<>>],
     Book(<<>>),
     IF token_id[2] = "buy_yes"
     THEN Book(<<Level(<<2, 5>>, <<200, 1>>)>>)
     ELSE Book(<<Level(<<3, 5>>, <<50, 1>>), Level(<<13, 20>>, <<20, 1>>)>>)}

\* what fetch_midpoint returns per token while marking
MidScenarios ==
    {[t \in Tokens |-> <<1, 2>>],
     [t \in Tokens |-> IF t[2] = "buy_yes" THEN <<7, 10>> ELSE <<3, 10>>],
     [t \in Tokens |-> IF t[1] = "btc-dip" THEN NULL ELSE <<1, 4>>]}

-----------------------------------------------------------------------------
(* polytrader/db.py *)

\* init_db on a fresh file, then no command running
NoScan == [pc |-> "idle", cash |-> Zero, snapshots |-> <<>>,
           i |-> 0, placed_rows |-> <<>>, run_id |-> 0, seen |-> None]
NoMids == [t \in Tokens |-> NULL]
\* the payload a command emits: nothing yet (ok is FALSE) while it runs
NoOutput == [command |-> "init", ok |-> FALSE, slug |-> "", outcome_yes |-> FALSE,
             closed |-> <<>>, positions |-> <<>>, mids |-> NoMids]

InitLedger ==
    /\ account = [starting_bankroll |-> Bankroll, cash |-> Bankroll]
    /\ trades = <<>>
    /\ runs = 0
    /\ clock = 0
    /\ sizer \in Sizers
    /\ scan = NoScan
    /\ emitted = NoOutput

\* UPDATE accounts SET cash = ?; commit
UpdateCash(acct, cash) == [acct EXCEPT !.cash = cash]

\* InsertTrade recording the notional asked for instead of the notional filled
InsertTradeOfRequested(tbl, run_id, row) ==
    Append(tbl, [id |-> Len(tbl) + 1, run_id |-> run_id,
                 market_slug |-> row.market_slug, side |-> row.side,
                 token_id |-> row.token_id, entry_price |-> row.entry_price,
                 shares |-> row.shares, notional_usd |-> row.order_usd,
                 status |-> "open", closed_at |-> NULL, exit_price |-> NULL,
                 realized_pnl |-> NULL])

\* INSERT INTO trades ... 'open'; commit
InsertTrade(tbl, run_id, row) ==
    Append(tbl, [id |-> Len(tbl) + 1, run_id |-> run_id,
                 market_slug |-> row.market_slug, side |-> row.side,
                 token_id |-> row.token_id, entry_price |-> row.entry_price,
                 shares |-> row.shares, notional_usd |-> row.spent_usd,
                 status |-> "open", closed_at |-> NULL, exit_price |-> NULL,
                 realized_pnl |-> NULL])

\* OpenIds without the status = 'open' condition
RECURSIVE AnyStatusIds(_, _, _)
AnyStatusIds(tbl, k, slug) ==
    IF k > Len(tbl) THEN <<>>
    ELSE IF slug = "" \/ tbl[k].market_slug = slug
         THEN <<k>> \o AnyStatusIds(tbl, k + 1, slug)
         ELSE AnyStatusIds(tbl, k + 1, slug)

RECURSIVE OpenIds(_, _, _)
\* ids, ascending from k on, of the open rows of tbl (of market slug, or of
\* every market when slug is "")
OpenIds(tbl, k, slug) ==
    IF k > Len(tbl) THEN <<>>
    ELSE IF tbl[k].status = "open" /\ (slug = "" \/ tbl[k].market_slug = slug)
         THEN <<k>> \o OpenIds(tbl, k + 1, slug)
         ELSE OpenIds(tbl, k + 1, slug)

Reverse(s) == [k \in 1..Len(s) |-> s[Len(s) + 1 - k]]

\* SELECT * FROM trades WHERE status = 'open' ORDER BY opened_at DESC
ListOpenTrades(tbl) ==
    LET ids == Reverse(OpenIds(tbl, 1, ""))
    IN  [k \in 1..Len(ids) |-> tbl[ids[k]]]

\* PayoutPerShare paying every side as if it were buy_yes
PayoutPerShareYesOnly(side, outcome_yes) == IF outcome_yes THEN One ELSE Zero

PayoutPerShare(side, outcome_yes) ==
    CASE side = "buy_yes" -> IF outcome_yes THEN One ELSE Zero
      [] side = "buy_no" -> IF outcome_yes THEN Zero ELSE One
      [] OTHER -> Zero

\* the loop of close_market_positions over open_rows (ids, ascending):
\* acc = [cash, tbl, closed]
RECURSIVE CloseRows(_, _, _, _)
CloseRows(ids, outcome_yes, now, acc) ==
    IF ids = <<>> THEN acc
    ELSE LET trade == acc.tbl[Head(ids)]
             payout_per_share == PayoutPerShare(trade.side, outcome_yes)
             payout == Mul(trade.shares, payout_per_share)
             pnl == Sub(payout, trade.notional_usd)
             shut == [trade EXCEPT !.status = "closed", !.closed_at = <<now>>,
                                   !.exit_price = payout_per_share,
                                   !.realized_pnl = pnl]
         IN  CloseRows(Tail(ids), outcome_yes, now,
                       [cash |-> Add(acc.cash, payout),
                        tbl |-> [acc.tbl EXCEPT ![Head(ids)] = shut],
                        closed |-> Append(acc.closed, Head(ids))])

\* OpenRowsOf without the status = 'open' condition
RowsOfAnyStatus(tbl, slug) ==
    SelectSeq([k \in 1..Len(tbl) |-> k], LAMBDA k : tbl[k].market_slug = slug)

\* OpenRowsOf without the market_slug = ? condition
OpenRowsOfAnyMarket(tbl, slug) == OpenIds(tbl, 1, "")

\* SELECT ... WHERE status = 'open' AND market_slug = ? ORDER BY opened_at ASC
OpenRowsOf(tbl, slug) == OpenIds(tbl, 1, slug)

\* close_market_positions(conn, slug, outcome_yes): [cash, tbl, closed]
CloseMarketPositions(acct, tbl, slug, outcome_yes, now) ==
    CloseRows(OpenRowsOf(tbl, slug), outcome_yes, now,
              [cash |-> acct.cash, tbl |-> tbl, closed |-> <<>>])

-----------------------------------------------------------------------------
(* polytrader/engine.py: scan_once, one step per committed write *)

\* lines 41-61 for one snapshot: the order to fill, or None when the market
\* is skipped before any book is fetched (no signal, no order, order above cash)
TryOrder(szr, cash, snap, p_above) ==
    LET sig == Evaluate(MinEdge, snap, p_above) IN
    IF sig = None THEN None
    ELSE LET order == Size(szr, sig, cash) IN
    IF order = None THEN None
    ELSE IF Lt(cash, order.order_usd) THEN None
    ELSE order

\* TryFill placing a row of nothing when there is no book, no fill
TryFillPlacingNothing(snap, order, book) ==
    IF book # None /\ SimulateBuy(book, order.order_usd) # None
    THEN LET fill == SimulateBuy(book, order.order_usd) IN
         [market_slug |-> snap.slug, side |-> order.side, token_id |-> order.token_id,
          entry_price |-> fill.avg_price, shares |-> fill.shares,
          spent_usd |-> fill.spent_usd, order_usd |-> order.order_usd]
    ELSE [market_slug |-> snap.slug, side |-> order.side, token_id |-> order.token_id,
          entry_price |-> Zero, shares |-> Zero,
          spent_usd |-> Zero, order_usd |-> order.order_usd]

\* lines 62-88 for an order: the placed row, or None when the market is
\* skipped (no book, no fill)
TryFill(snap, order, book) ==
    IF book = None THEN None
    ELSE LET fill == SimulateBuy(book, order.order_usd) IN
    IF fill = None THEN None
    ELSE [market_slug |-> snap.slug, side |-> order.side, token_id |-> order.token_id,
          entry_price |-> fill.avg_price, shares |-> fill.shares,
          spent_usd |-> fill.spent_usd, order_usd |-> order.order_usd]

Snapshot(slug, inp) ==
    [slug |-> slug, parsed |-> inp.parsed, kind |-> inp.kind, end_date |-> inp.end_date,
     yes_mid |-> inp.yes_mid, no_mid |-> inp.no_mid]

\* lines 24-36: read the account, fetch and filter the markets
ScanBegin ==
    /\ scan.pc = "idle"
    /\ clock < MaxClock
    /\ \E snapshots \in SnapshotLists :
          scan' = [pc |-> "markets", cash |-> account.cash,
                   snapshots |-> snapshots, i |-> 1, placed_rows |-> <<>>, run_id |-> 0,
                   seen |-> None]
    /\ clock' = clock + 1
    /\ emitted' = [NoOutput EXCEPT !.command = "scan"]
    /\ UNCHANGED <<account, trades, runs, sizer>>
    /\ UNCHANGED <<mvars, call>>

\* no book was asked for
NotFetched == [not_fetched |-> TRUE]

\* what the sources answered for the market of an iteration: the estimator's
\* input and the book of fetch_book
Seen(inp, book) == [inp |-> inp, book |-> book]

\* lines 40-61: one iteration of the loop over snapshots that places nothing
ScanSkip ==
    /\ scan.pc = "markets"
    /\ scan.i <= Len(scan.snapshots)
    /\ \E inp \in MarketInputs :
          \E snap \in {Snapshot(scan.snapshots[scan.i], inp)} :
          \E order \in {TryOrder(sizer, scan.cash, snap, inp.p_above)} :
              \/ /\ order = None
                 /\ scan' = [scan EXCEPT !.i = @ + 1, !.seen = Seen(inp, NotFetched)]
              \/ /\ order # None
                 /\ \E book \in Books(order.token_id) :
                       /\ TryFill(snap, order, book) = None
                       /\ scan' = [scan EXCEPT !.i = @ + 1, !.seen = Seen(inp, book)]
    /\ UNCHANGED <<account, trades, runs, clock, sizer, emitted>>
    /\ UNCHANGED <<mvars, call>>

\* ScanFill keeping the cash of the start of the cycle for the later orders
ScanFillOnStartingCash ==
    /\ scan.pc = "markets"
    /\ scan.i <= Len(scan.snapshots)
    /\ \E inp \in MarketInputs :
          \E snap \in {Snapshot(scan.snapshots[scan.i], inp)} :
          \E order \in {TryOrder(sizer, scan.cash, snap, inp.p_above)} :
              /\ order # None
              /\ \E book \in Books(order.token_id) :
                    \E row \in {TryFill(snap, order, book)} :
                        /\ row # None
                        /\ account' = UpdateCash(account, Sub(account.cash, row.spent_usd))
                        /\ scan' = [scan EXCEPT !.i = @ + 1, !.seen = Seen(inp, book),
                                                !.placed_rows = Append(@, row)]
    /\ UNCHANGED <<trades, runs, clock, sizer, emitted>>
    /\ UNCHANGED <<mvars, call>>

\* lines 40-88: one iteration of the loop over snapshots that fills an order
ScanFill ==
    /\ scan.pc = "markets"
    /\ scan.i <= Len(scan.snapshots)
    /\ \E inp \in MarketInputs :
          \E snap \in {Snapshot(scan.snapshots[scan.i], inp)} :
          \E order \in {TryOrder(sizer, scan.cash, snap, inp.p_above)} :
              /\ order # None
              /\ \E book \in Books(order.token_id) :
                    \E row \in {TryFill(snap, order, book)} :
                        /\ row # None
                        /\ \E cash \in {Sub(scan.cash, row.spent_usd)} :
                              /\ account' = UpdateCash(account, cash)
                              /\ scan' = [scan EXCEPT !.i = @ + 1, !.cash = cash,
                                                      !.seen = Seen(inp, book),
                                                      !.placed_rows = Append(@, row)]
    /\ UNCHANGED <<trades, runs, clock, sizer, emitted>>
    /\ UNCHANGED <<mvars, call>>

\* an exception leaves the loop (model.evaluate and fetch_book go to the
\* network: httpx raises on transport errors); cli.scan catches it and fails
ScanRaises ==
    /\ scan.pc = "markets"
    /\ scan.i <= Len(scan.snapshots)
    /\ scan' = NoScan
    /\ emitted' = [NoOutput EXCEPT !.command = "scan", !.slug = "error"]
    /\ UNCHANGED <<account, trades, runs, clock, sizer>>
    /\ UNCHANGED <<mvars, call>>

\* lines 90-106: insert_run
ScanInsertRun ==
    /\ scan.pc = "markets"
    /\ scan.i > Len(scan.snapshots)
    /\ runs' = runs + 1
    /\ scan' = [scan EXCEPT !.pc = "trades", !.i = 1, !.run_id = runs + 1, !.seen = None]
    /\ UNCHANGED <<account, trades, clock, sizer, emitted>>
    /\ UNCHANGED <<mvars, call>>

\* lines 108-131: one insert_trade
ScanInsertTrade ==
    /\ scan.pc = "trades"
    /\ scan.i <= Len(scan.placed_rows)
    /\ trades' = InsertTrade(trades, scan.run_id, scan.placed_rows[scan.i])
    /\ scan' = [scan EXCEPT !.i = @ + 1]
    /\ UNCHANGED <<account, runs, clock, sizer, emitted>>
    /\ UNCHANGED <<mvars, call>>

\* lines 133-143
ScanReturn ==
    /\ scan.pc = "trades"
    /\ scan.i > Len(scan.placed_rows)
    /\ scan' = NoScan
    /\ emitted' = [NoOutput EXCEPT !.command = "scan", !.ok = TRUE]
    /\ UNCHANGED <<account, trades, runs, clock, sizer>>
    /\ UNCHANGED <<mvars, call>>

\* mark_open_positions: one valuation per open trade whose midpoint is there
RECURSIVE MarkRows(_, _)
MarkRows(rows, mids) ==
    IF rows = <<>> THEN <<>>
    ELSE LET r == Head(rows)
             mid == mids[r.token_id]
         IN  IF mid = NULL THEN MarkRows(Tail(rows), mids)
             ELSE LET current_value == Mul(r.shares, mid) IN
                  <<[trade |-> r, mark_price |-> mid, mark_value |-> current_value,
                     unrealized_pnl |-> Sub(current_value, r.notional_usd)]>>
                  \o MarkRows(Tail(rows), mids)

\* MarkOpenPositions valuing every row of the table, closed ones too
MarkEveryTrade(tbl, mids) == MarkRows(tbl, mids)

\* lines 146-165
MarkOpenPositions(tbl, mids) == MarkRows(ListOpenTrades(tbl), mids)

-----------------------------------------------------------------------------
(* polytrader/cli.py: the commands on the ledger *)

\* polytrader resolve --slug --outcome
Resolve ==
    /\ clock < MaxClock
    /\ \E slug \in Slugs, outcome_yes \in BOOLEAN :
          LET r == CloseMarketPositions(account, trades, slug, outcome_yes, clock + 1) IN
          /\ trades' = r.tbl
          /\ account' = UpdateCash(account, r.cash)
          /\ emitted' = [NoOutput EXCEPT !.command = "resolve", !.ok = TRUE, !.slug = slug,
                                         !.outcome_yes = outcome_yes, !.closed = r.closed]
    /\ clock' = clock + 1
    /\ UNCHANGED <<runs, sizer, scan>>
    /\ UNCHANGED <<mvars, call>>

\* Positions storing each valuation's unrealized PnL in its trade row
PositionsWritingBack ==
    /\ \E mids \in MidScenarios :
          LET marks == MarkOpenPositions(trades, mids) IN
          /\ emitted' = [NoOutput EXCEPT !.command = "positions", !.ok = TRUE,
                                         !.mids = mids, !.positions = marks]
          /\ trades' = [k \in 1..Len(trades) |->
                          IF \E j \in 1..Len(marks) : marks[j].trade.id = k
                          THEN [trades[k] EXCEPT !.realized_pnl =
                                  Sub(Mul(trades[k].shares, mids[trades[k].token_id]),
                                      trades[k].notional_usd)]
                          ELSE trades[k]]
    /\ UNCHANGED <<account, runs, clock, sizer, scan>>
    /\ UNCHANGED <<mvars, call>>

\* polytrader positions
Positions ==
    /\ \E mids \in MidScenarios :
          emitted' = [NoOutput EXCEPT !.command = "positions", !.ok = TRUE, !.mids = mids,
                                      !.positions = MarkOpenPositions(trades, mids)]
    /\ UNCHANGED <<account, trades, runs, clock, sizer, scan>>
    /\ UNCHANGED <<mvars, call>>

-----------------------------------------------------------------------------
(* spread_monitor.py: the gate and one scan *)

\* Python dicts keyed by slug
EmptyDict == [k \in {} |-> 0]
Get(d, k, default) == IF k \in DOMAIN d THEN d[k] ELSE default
Put(d, k, v) == [x \in (DOMAIN d) \cup {k} |-> IF x = k THEN v ELSE d[x]]

\* main, lines 708-712
NoGateState ==
    [streak_by_slug |-> EmptyDict, last_signal_run |-> EmptyDict,
     last_signal_edge |-> EmptyDict]

\* write_log of a record: the fields the gate and the loop are observed by
LogRec(action, slug) == [action |-> action, slug |-> slug]

\* round(x, 2): to the nearest cent, ties to the even cent
Round2(x) ==
    LET n == x[1] * 100
        fl == n \div x[2]
        twice_rem == 2 * (n - fl * x[2])
    IN  IF twice_rem < x[2] THEN Rat(fl, 100)
        ELSE IF twice_rem > x[2] THEN Rat(fl + 1, 100)
        ELSE IF fl % 2 = 0 THEN Rat(fl, 100)
        ELSE Rat(fl + 1, 100)

\* run_polymarket(["clob", "market-order", "--token", token, "--side", side,
\* "--amount", amount]); accepted is FALSE when the call raises
MarketOrder(token, amount, accepted) ==
    [token |-> token, side |-> "buy", amount |-> amount, accepted |-> accepted]

\* lines 390-402: the decision record, with the fields a reader of the log
\* can tell a rejection below threshold by
DecisionRec(slug, net_edge, threshold, persist_runs) ==
    [action |-> "decision", slug |-> slug, net_edge |-> net_edge,
     threshold |-> threshold, persist_runs |-> persist_runs]

NeverSignalledRun == -1000000000
UnboundedImprovementBps == 1000000000

\* MaybeExecute suppressing within the cooldown whatever the improvement
MaybeExecuteCooldownAlone(opp, a, run_seq, acc) ==
    LET slug == opp.slug
        gs == acc.gate_state
        logged == Append(acc.log, DecisionRec(slug, opp.net_edge, a.threshold, opp.persist_runs))
        last_run == Get(gs.last_signal_run, slug, NeverSignalledRun)
        runs_since == run_seq - last_run
        \* a stored edge is above -1e8; the default -1e9 is not
        improvement_bps ==
            IF slug \in DOMAIN gs.last_signal_edge
            THEN Mul(Sub(opp.net_edge, gs.last_signal_edge[slug]), <<10000, 1>>)
            ELSE <<UnboundedImprovementBps, 1>>
        fired == [gs EXCEPT !.last_signal_run = Put(@, slug, run_seq),
                            !.last_signal_edge = Put(@, slug, opp.net_edge)]
    IN  IF Lt(opp.net_edge, a.threshold) THEN [acc EXCEPT !.log = logged]
        ELSE IF opp.persist_runs < a.min_persist_runs
        THEN [acc EXCEPT !.log = Append(logged, LogRec("signal_blocked_persistence", slug))]
        ELSE IF runs_since < a.signal_cooldown_runs
        THEN [acc EXCEPT !.log = Append(logged, LogRec("signal_blocked_cooldown", slug))]
        ELSE IF ~a.execute_live
        THEN [acc EXCEPT !.log = Append(logged, LogRec("paper_trade_signal", slug)),
                         !.gate_state = fired]
        ELSE IF ~a.confirm_live
        THEN [acc EXCEPT !.log = Append(logged, LogRec("blocked_missing_confirm_live", slug))]
        ELSE IF Lt(a.live_order_usd, opp.order_usd)
        THEN [acc EXCEPT !.log = Append(logged, LogRec("blocked_live_over_cap", slug))]
        ELSE IF acc.accepting = 0
        THEN [acc EXCEPT !.log = logged, !.raised = TRUE,
                         !.orders = Append(@, MarketOrder(opp.token, Round2(opp.order_usd), FALSE))]
        ELSE [acc EXCEPT !.log = Append(logged, LogRec("live_order_submitted", slug)),
                         !.orders = Append(@, MarketOrder(opp.token, Round2(opp.order_usd), TRUE)),
                         !.accepting = @ - 1,
                         !.gate_state = fired]

\* MaybeExecute returning on insufficient persistence without its log record
MaybeExecuteUnexplained(opp, a, run_seq, acc) ==
    LET slug == opp.slug
        gs == acc.gate_state
        logged == Append(acc.log, DecisionRec(slug, opp.net_edge, a.threshold, opp.persist_runs))
        last_run == Get(gs.last_signal_run, slug, NeverSignalledRun)
        runs_since == run_seq - last_run
        \* a stored edge is above -1e8; the default -1e9 is not
        improvement_bps ==
            IF slug \in DOMAIN gs.last_signal_edge
            THEN Mul(Sub(opp.net_edge, gs.last_signal_edge[slug]), <<10000, 1>>)
            ELSE <<UnboundedImprovementBps, 1>>
        fired == [gs EXCEPT !.last_signal_run = Put(@, slug, run_seq),
                            !.last_signal_edge = Put(@, slug, opp.net_edge)]
    IN  IF Lt(opp.net_edge, a.threshold) THEN [acc EXCEPT !.log = logged]
        ELSE IF opp.persist_runs < a.min_persist_runs
        THEN [acc EXCEPT !.log = logged]
        ELSE IF runs_since < a.signal_cooldown_runs
                /\ Lt(improvement_bps, a.min_improvement_bps)
        THEN [acc EXCEPT !.log = Append(logged, LogRec("signal_blocked_cooldown", slug))]
        ELSE IF ~a.execute_live
        THEN [acc EXCEPT !.log = Append(logged, LogRec("paper_trade_signal", slug)),
                         !.gate_state = fired]
        ELSE IF ~a.confirm_live
        THEN [acc EXCEPT !.log = Append(logged, LogRec("blocked_missing_confirm_live", slug))]
        ELSE IF Lt(a.live_order_usd, opp.order_usd)
        THEN [acc EXCEPT !.log = Append(logged, LogRec("blocked_live_over_cap", slug))]
        ELSE IF acc.accepting = 0
        THEN [acc EXCEPT !.log = logged, !.raised = TRUE,
                         !.orders = Append(@, MarketOrder(opp.token, Round2(opp.order_usd), FALSE))]
        ELSE [acc EXCEPT !.log = Append(logged, LogRec("live_order_submitted", slug)),
                         !.orders = Append(@, MarketOrder(opp.token, Round2(opp.order_usd), TRUE)),
                         !.accepting = @ - 1,
                         !.gate_state = fired]

\* as if a signal blocked for the missing confirmation counted as fired
MissingConfirmCountedAsFired(acc, logged, slug, fired) ==
    [acc EXCEPT !.log = Append(logged, LogRec("blocked_missing_confirm_live", slug)),
                !.gate_state = fired]

\* lines 452-454: live execution without --confirm-live
MissingConfirm(acc, logged, slug, fired) ==
    [acc EXCEPT !.log = Append(logged, LogRec("blocked_missing_confirm_live", slug))]

\* as if the signal were marked fired before the order is handed over
SubmissionRaisesOnceFired(acc, logged, opp, fired) ==
    [acc EXCEPT !.log = logged, !.raised = TRUE, !.gate_state = fired,
                !.orders = Append(@, MarketOrder(opp.token, Round2(opp.order_usd), FALSE))]

\* lines 464-468: run_polymarket raises on the market order; nothing of
\* maybe_execute after the call runs (no record, no last-signal update)
SubmissionRaises(acc, logged, opp, fired) ==
    [acc EXCEPT !.log = logged, !.raised = TRUE,
                !.orders = Append(@, MarketOrder(opp.token, Round2(opp.order_usd), FALSE))]

\* maybe_execute: acc = [gate_state, log, orders, accepting, raised] is what
\* the candidates before opp left; accepting is the number of submissions the
\* brokerage channel still takes before one raises
MaybeExecute(opp, a, run_seq, acc) ==
    LET slug == opp.slug
        gs == acc.gate_state
        logged == Append(acc.log, DecisionRec(slug, opp.net_edge, a.threshold, opp.persist_runs))
        last_run == Get(gs.last_signal_run, slug, NeverSignalledRun)
        runs_since == run_seq - last_run
        \* a stored edge is above -1e8; the default -1e9 is not
        improvement_bps ==
            IF slug \in DOMAIN gs.last_signal_edge
            THEN Mul(Sub(opp.net_edge, gs.last_signal_edge[slug]), <<10000, 1>>)
            ELSE <<UnboundedImprovementBps, 1>>
        fired == [gs EXCEPT !.last_signal_run = Put(@, slug, run_seq),
                            !.last_signal_edge = Put(@, slug, opp.net_edge)]
    IN  IF Lt(opp.net_edge, a.threshold) THEN [acc EXCEPT !.log = logged]
        ELSE IF opp.persist_runs < a.min_persist_runs
        THEN [acc EXCEPT !.log = Append(logged, LogRec("signal_blocked_persistence", slug))]
        ELSE IF runs_since < a.signal_cooldown_runs
                /\ Lt(improvement_bps, a.min_improvement_bps)
        THEN [acc EXCEPT !.log = Append(logged, LogRec("signal_blocked_cooldown", slug))]
        ELSE IF ~a.execute_live
        THEN [acc EXCEPT !.log = Append(logged, LogRec("paper_trade_signal", slug)),
                         !.gate_state = fired]
        ELSE IF ~a.confirm_live
        THEN MissingConfirm(acc, logged, slug, fired)
        ELSE IF Lt(a.live_order_usd, opp.order_usd)
        THEN [acc EXCEPT !.log = Append(logged, LogRec("blocked_live_over_cap", slug))]
        ELSE IF acc.accepting = 0
        THEN SubmissionRaises(acc, logged, opp, fired)
        ELSE [acc EXCEPT !.log = Append(logged, LogRec("live_order_submitted", slug)),
                         !.orders = Append(@, MarketOrder(opp.token, Round2(opp.order_usd), TRUE)),
                         !.accepting = @ - 1,
                         !.gate_state = fired]

\* run_scan, lines 487-509: the markets that pass the filters
Filtered(markets) == SelectSeq(markets, LAMBDA m : m.listed)

\* lines 556-561: acc = [opportunities, log]
Collected(acc, m, ev) ==
    IF ev = None THEN acc
    ELSE [acc EXCEPT !.opportunities = Append(@, ev),
                     !.log = Append(@, LogRec("evaluation", m.slug))]

\* lines 542-572 for one market
EvaluateOne(m, a, acc) ==
    IF EvaluateRaises(m) THEN [acc EXCEPT !.log = Append(@, LogRec("market_error", m.slug))]
    ELSE Collected(acc, m, EvaluateMarket(m, a))

\* run_scan, lines 540-572
RECURSIVE EvaluateAll(_, _, _)
EvaluateAll(markets, a, acc) ==
    IF markets = <<>> THEN acc
    ELSE EvaluateAll(Tail(markets), a, EvaluateOne(Head(markets), a, acc))

\* o put behind the opportunities of sorted whose net edge is not below its own
InsertByNetEdge(sorted, o) ==
    LET k == Cardinality({j \in 1..Len(sorted) : ~Lt(sorted[j].net_edge, o.net_edge)})
    IN  SubSeq(sorted, 1, k) \o <<o>> \o SubSeq(sorted, k + 1, Len(sorted))

\* list.sort(key=net_edge, reverse=True): descending and stable
RECURSIVE SortByNetEdge(_)
SortByNetEdge(opps) ==
    IF opps = <<>> THEN <<>>
    ELSE InsertByNetEdge(SortByNetEdge(SubSeq(opps, 1, Len(opps) - 1)), opps[Len(opps)])

PassSlugs(opps, threshold) ==
    {opps[k].slug : k \in {j \in 1..Len(opps) : ~Lt(opps[j].net_edge, threshold)}}

\* ResetStreaks leaving every counter as it is
ResetStreaksNever(streak, pass_slugs) == streak

\* run_scan, lines 577-579
ResetStreaks(streak, pass_slugs) ==
    [s \in DOMAIN streak |-> IF s \in pass_slugs THEN streak[s] ELSE 0]

\* lines 581-589 for one opportunity with persistence n
Counted(acc, o, n) ==
    [streak |-> IF o.slug = "" THEN acc.streak ELSE Put(acc.streak, o.slug, n),
     opportunities |-> Append(acc.opportunities, [o EXCEPT !.persist_runs = n])]

\* run_scan, lines 580-589: acc = [streak, opportunities]
RECURSIVE CountStreaks(_, _, _)
CountStreaks(opps, pass_slugs, acc) ==
    IF opps = <<>> THEN acc
    ELSE CountStreaks(Tail(opps), pass_slugs,
                      Counted(acc, Head(opps),
                              IF Head(opps).slug = "" THEN 0
                              ELSE IF Head(opps).slug \in pass_slugs
                              THEN Get(acc.streak, Head(opps).slug, 0) + 1
                              ELSE 0))

TopCandidates == 5

\* Top handing every opportunity to the gate
TopAll(opps) == opps

\* opportunities[:5]
Top(opps) == SubSeq(opps, 1, IF Len(opps) < TopCandidates THEN Len(opps) ELSE TopCandidates)

\* run_scan, lines 592-606
RECURSIVE ExecuteTop(_, _, _, _)
ExecuteTop(top, a, run_seq, acc) ==
    IF top = <<>> \/ acc.raised THEN acc
    ELSE ExecuteTop(Tail(top), a, run_seq, MaybeExecute(Head(top), a, run_seq, acc))

\* what one pass of main's loop leaves to be observed; feed is what the
\* sources answered to its run_scan (None when run_scan was not called)
NoCycle ==
    [run_seq |-> 0, result |-> "none", log |-> <<>>, orders |-> <<>>,
     active_markets |-> 0, opportunities |-> <<>>, top |-> <<>>, reference |-> None,
     feed |-> None]

\* run_scan raising before any market is evaluated
Failed(gs, run_seq, feed, result, log) ==
    [cycle |-> [NoCycle EXCEPT !.run_seq = run_seq, !.result = result, !.log = log,
                               !.feed = feed],
     gate_state |-> gs]

\* lines 607-630, or the exception of a submission reaching main
Finished(run_seq, feed, ref, active_markets, opps, top, done) ==
    [cycle |-> [run_seq |-> run_seq,
                result |-> IF done.raised THEN "run_error" ELSE "summary",
                log |-> Append(done.log,
                               LogRec(IF done.raised THEN "run_error" ELSE "run_summary", "")),
                orders |-> done.orders,
                active_markets |-> active_markets,
                opportunities |-> opps,
                top |-> top,
                reference |-> ref,
                feed |-> feed],
     gate_state |-> done.gate_state]

\* main takes what run_scan returned, or what its exception left
Returns(r) == cycle' = r.cycle /\ gate_state' = r.gate_state

\* run_scan: feed = [search, midpoints, quotes] is what the markets search,
\* the midpoints call and the reference sources answer, ms the markets of
\* the search; result "summary" when run_scan returns, "run_error" when it
\* raises an Exception, "exit" when it raises SystemExit. Each local of
\* run_scan is bound once it is computed.
RunScan(a, gs, run_seq, feed, ms, accepting) ==
    IF feed.search = "raises"
    THEN Returns(Failed(gs, run_seq, feed, "run_error", <<LogRec("run_error", "")>>))
    ELSE IF feed.search = "not_list" THEN Returns(Failed(gs, run_seq, feed, "exit", <<>>))
    ELSE IF feed.midpoints = "raises"
    THEN Returns(Failed(gs, run_seq, feed, "run_error", <<LogRec("run_error", "")>>))
    ELSE \E ref \in {GetReferenceMarket(feed.quotes)}, markets \in {Filtered(ms)} :
         \* lines 513-539
         IF ref = None
         THEN Returns(Failed(gs, run_seq, feed, "run_error", <<LogRec("run_error", "")>>))
         ELSE \* lines 540-574
              \E evaluated \in {EvaluateAll(markets, a,
                                             [opportunities |-> <<>>,
                                              log |-> <<LogRec("run_start", "")>>])} :
              \E sorted \in {SortByNetEdge(evaluated.opportunities)} :
              \* lines 575-589
              \E pass_slugs \in {PassSlugs(sorted, a.threshold)} :
              \E counted \in {CountStreaks(sorted, pass_slugs,
                                           [streak |-> ResetStreaks(gs.streak_by_slug,
                                                                    pass_slugs),
                                            opportunities |-> <<>>])} :
              \* lines 591-606
              \E top \in {Top(counted.opportunities)} :
              \E done \in {ExecuteTop(top, a, run_seq,
                                      [gate_state |-> [gs EXCEPT !.streak_by_slug =
                                                                    counted.streak],
                                       log |-> evaluated.log, orders |-> <<>>,
                                       accepting |-> accepting, raised |-> FALSE])} :
                 Returns(Finished(run_seq, feed, ref, Len(markets), counted.opportunities,
                                  top, done))

-----------------------------------------------------------------------------
(* spread_monitor.py: the deployments checked *)

\* --max-runs of the looping deployments
MaxRuns == 3

\* zero assumed costs, so that the net edge is the gross edge
PaperArgs ==
    [bankroll_usd |-> <<1000, 1>>, kelly_fraction |-> <<1, 4>>,
     max_paper_order_usd |-> <<100, 1>>, live_order_usd |-> <<5, 1>>,
     threshold |-> <<3, 100>>, fee_bps |-> Zero, slippage_bps |-> Zero, gas_usd |-> Zero,
     paper_only |-> FALSE, execute_live |-> FALSE, confirm_live |-> FALSE,
     loop_secs |-> 60, max_runs |-> MaxRuns,
     min_persist_runs |-> 2, signal_cooldown_runs |-> 5, min_improvement_bps |-> <<25, 1>>]

\* the defaults of build_parser with both live switches set
LiveArgs ==
    [PaperArgs EXCEPT !.threshold = <<3, 250>>, !.slippage_bps = <<20, 1>>,
                      !.gas_usd = <<1, 50>>, !.execute_live = TRUE, !.confirm_live = TRUE]

\* a single scan (no --loop-secs) that signals on the first qualifying run
RankArgs == [PaperArgs EXCEPT !.loop_secs = 0, !.max_runs = 0, !.min_persist_runs = 1]

\* a market of the search with mids 0.40 / 0.60
Market(listed, parsed, hex_ok, prob_above) ==
    [listed |-> listed, parsed |-> parsed, hex_ok |-> hex_ok, kind |-> "above_or_hit",
     yes_mid |-> <<2, 5>>, no_mid |-> <<3, 5>>, prob_above |-> prob_above]

Unlisted == Market(FALSE, TRUE, TRUE, <<433, 1000>>)
Unparsed == Market(TRUE, FALSE, TRUE, <<433, 1000>>)
BadToken == Market(TRUE, TRUE, FALSE, <<433, 1000>>)
\* gross edge 0.01, 0.03, 0.0305 and 0.033 on the yes side
Edge100 == Market(TRUE, TRUE, TRUE, <<41, 100>>)
Edge300 == Market(TRUE, TRUE, TRUE, <<43, 100>>)
Edge305 == Market(TRUE, TRUE, TRUE, <<861, 2000>>)
Edge330 == Market(TRUE, TRUE, TRUE, <<433, 1000>>)

Quotes(spot, perp, sigma) == [spot |-> spot, perp |-> perp, sigma |-> sigma]
Feed(search, midpoints, quotes) == [search |-> search, midpoints |-> midpoints, quotes |-> quotes]
GoodQuotes == Quotes(<<100000, 1>>, <<100100, 1>>, <<1, 2>>)
OkFeed == Feed("list", "ok", GoodQuotes)
Feeds ==
    {OkFeed,
     Feed("list", "ok", [GoodQuotes EXCEPT !.perp = NULL]),
     Feed("list", "ok", [GoodQuotes EXCEPT !.sigma = NULL]),
     Feed("list", "ok", [GoodQuotes EXCEPT !.spot = NULL]),
     Feed("list", "raises", GoodQuotes),
     Feed("raises", "ok", GoodQuotes),
     Feed("not_list", "ok", GoodQuotes)}

MonitorSlugs == <<"btc-100k", "btc-dip", "btc-120k", "btc-150k", "btc-80k", "btc-90k">>

\* contents of the runtime config file between two loops (EmptyDict: no file)
Overrides ==
    {EmptyDict,
     [live_order_usd |-> <<10, 1>>],
     [live_order_usd |-> <<2, 1>>, max_runs |-> 99],
     [paper_only |-> TRUE],
     [confirm_live |-> FALSE]}

Deployment(a, slugs, inputs, overrides, feeds, broker) ==
    [args |-> a, slugs |-> slugs, inputs |-> inputs, overrides |-> overrides,
     feeds |-> feeds, broker |-> broker]

Deployments ==
    {Deployment(PaperArgs, SubSeq(MonitorSlugs, 1, 2),
                {Unlisted, Unparsed, BadToken, Edge100, Edge300, Edge305, Edge330},
                {EmptyDict}, {OkFeed}, {TopCandidates}),
     Deployment(LiveArgs, SubSeq(MonitorSlugs, 1, 2),
                {Edge100, Edge330}, Overrides, {OkFeed}, {TopCandidates}),
     Deployment(LiveArgs, SubSeq(MonitorSlugs, 1, 2),
                {Edge100, Edge330}, {EmptyDict}, Feeds, {0, 1, TopCandidates}),
     Deployment(PaperArgs, SubSeq(MonitorSlugs, 1, 3),
                {Edge100, Edge300}, {EmptyDict}, {OkFeed}, {TopCandidates}),
     Deployment(RankArgs, SubSeq(MonitorSlugs, 1, TopCandidates + 1),
                {Unparsed, Edge100, Edge300, Edge330},
                {EmptyDict}, {OkFeed}, {TopCandidates}),
     Deployment([LiveArgs EXCEPT !.live_order_usd = <<10, 1>>], SubSeq(MonitorSlugs, 1, 2),
                {Edge330}, {EmptyDict}, {OkFeed}, {TopCandidates}),
     Deployment([LiveArgs EXCEPT !.paper_only = TRUE], SubSeq(MonitorSlugs, 1, 2),
                {Edge330}, {EmptyDict}, {OkFeed}, {TopCandidates})}

-----------------------------------------------------------------------------
(* spread_monitor.py: main *)

InitMonitor ==
    /\ \E d \in Deployments :
          /\ args = d.args
          /\ env = [slugs |-> d.slugs, inputs |-> d.inputs, overrides |-> d.overrides,
                    feeds |-> d.feeds, broker |-> d.broker]
    /\ gate_state = NoGateState
    /\ monitor_runs = 0
    /\ main_pc = "start"
    /\ cycle = NoCycle
    /\ journal = <<>>

\* no monitor running beside the ledger's commands
MonitorOff ==
    /\ args = PaperArgs
    /\ env = [slugs |-> <<>>, inputs |-> {}, overrides |-> {}, feeds |-> {}, broker |-> {}]
    /\ gate_state = NoGateState
    /\ monitor_runs = 0
    /\ main_pc = "returned"
    /\ cycle = NoCycle
    /\ journal = <<>>

\* lines 703-712: validate_args on the command line's values
MainStart ==
    /\ main_pc = "start"
    /\ main_pc' = IF ValidateArgs(args) THEN "loop" ELSE "exited"
    /\ UNCHANGED <<args, env, gate_state, monitor_runs, cycle, journal>>
    /\ UNCHANGED <<pvars, call>>

\* the markets the search returns in one loop: one input per slug
MarketsOf(slugs, f) ==
    [k \in 1..Len(slugs) |->
        [slug |-> slugs[k], listed |-> f[k].listed, parsed |-> f[k].parsed,
         hex_ok |-> f[k].hex_ok, kind |-> f[k].kind, yes_mid |-> f[k].yes_mid,
         no_mid |-> f[k].no_mid, prob_above |-> f[k].prob_above]]

\* the feed lets run_scan reach its loop over the markets
Evaluates(feed) ==
    feed.search = "list" /\ feed.midpoints = "ok" /\ GetReferenceMarket(feed.quotes) # None

\* what the log file keeps of a pass: write_log appends, nothing is removed
Journaled(c, a) ==
    [run_seq |-> c.run_seq, result |-> c.result,
     cleared |-> PassSlugs(c.opportunities, a.threshold)]

\* main's place after a pass of the loop, lines 727-732
AfterPass(a, n) ==
    IF a.loop_secs <= 0 THEN "returned"
    ELSE IF a.max_runs > 0 /\ n >= a.max_runs THEN "returned"
    ELSE "loop"

\* as if main had no handler at all around a pass
PropagatesAnyFailure(result) == result # "summary"

\* line 721: `except Exception` lets a SystemExit through, which ends main
Propagates(result) == result = "exit"

\* lines 713-732: one pass of the while loop
MainLoop ==
    /\ main_pc = "loop"
    /\ \E raw \in env.overrides :
          \E a \in {ForcePaper(ApplyRuntimeConfig(args, raw))} :
             /\ args' = a
             /\ IF ~ValidateArgs(a)
                THEN /\ cycle' = [NoCycle EXCEPT !.run_seq = monitor_runs + 1,
                                                 !.result = "exit"]
                     /\ gate_state' = gate_state
                ELSE \E feed \in env.feeds :
                        \/ /\ Evaluates(feed)
                           /\ \E f \in [1..Len(env.slugs) -> env.inputs],
                                 accepting \in env.broker :
                                 RunScan(a, gate_state, monitor_runs + 1, feed,
                                         MarketsOf(env.slugs, f), accepting)
                        \/ /\ ~Evaluates(feed)
                           /\ RunScan(a, gate_state, monitor_runs + 1, feed, <<>>, 0)
    /\ IF Propagates(cycle'.result)
       THEN main_pc' = "exited" /\ monitor_runs' = monitor_runs
       ELSE /\ monitor_runs' = monitor_runs + 1
            /\ main_pc' = AfterPass(args', monitor_runs + 1)
    /\ journal' = Append(journal, Journaled(cycle', args'))
    /\ UNCHANGED env
    /\ UNCHANGED <<pvars, call>>

vars == <<pvars, mvars, call>>

NoCall == [fn |-> "none", pc |-> "none"]

Init == InitLedger /\ MonitorOff /\ call = NoCall

\* one command at a time on a ledger (a single thread of control)
Next ==
    \/ ScanBegin
    \/ ScanSkip
    \/ ScanFill
    \/ ScanRaises
    \/ ScanInsertRun
    \/ ScanInsertTrade
    \/ ScanReturn
    \/ (scan.pc = "idle" /\ Resolve)
    \/ (scan.pc = "idle" /\ Positions)

Spec == Init /\ [][Next]_vars

\* a scan and resolve commands run as two processes on one ledger file: a
\* resolve commits between any two committed writes of the scan
NextConcurrent ==
    \/ ScanBegin
    \/ ScanSkip
    \/ ScanFill
    \/ ScanRaises
    \/ ScanInsertRun
    \/ ScanInsertTrade
    \/ ScanReturn
    \/ Resolve

SpecConcurrent == Init /\ [][NextConcurrent]_vars

\* the monitor beside an untouched ledger (spread_monitor.py opens no ledger)
InitMonitorSpec ==
    InitMonitor /\ InitLedger /\ sizer = FixedSizer(<<80, 1>>) /\ call = NoCall

NextMonitor ==
    \/ MainStart
    \/ MainLoop

SpecMonitor == InitMonitorSpec /\ [][NextMonitor]_vars

-----------------------------------------------------------------------------
(* The fill engine, the sizers and the estimator called on their own, over
   their inputs *)

\* ask levels per book
MaxLevels == 3

\* usable levels 0.40 x 100, 0.45 x 50, 0.50 x 10; levels with a price or a
\* size that is zero, negative or not a number
AskLevels ==
    {Level(<<2, 5>>, <<100, 1>>), Level(<<9, 20>>, <<50, 1>>), Level(<<1, 2>>, <<10, 1>>),
     Level(Zero, <<100, 1>>), Level(<<2, 5>>, Zero), Level(<<-1, 5>>, <<100, 1>>),
     Level(NULL, <<100, 1>>), Level(<<2, 5>>, NULL)}

AskLists == UNION {[1..n -> AskLevels] : n \in 0..MaxLevels}

\* what simulate_buy is handed as a book: not a dict, a dict without a list
\* under "asks", a dict with asks
FillBooks ==
    {[is_dict |-> FALSE, asks_is_list |-> FALSE, asks |-> <<>>],
     [is_dict |-> TRUE, asks_is_list |-> FALSE, asks |-> <<>>]}
        \cup {Book(asks) : asks \in AskLists}

Requests == {<<-5, 1>>, Zero, <<1, 100>>, <<40, 1>>, <<50, 1>>, <<100, 1>>}

\* the three sizers, with constructor arguments inside and outside their range
SizerVariants ==
    {FixedSizer(<<25, 1>>), FixedSizer(<<80, 1>>), FixedSizer(<<-5, 1>>),
     EqualWeightSizer(10), EqualWeightSizer(1), EqualWeightSizer(0),
     KellySizer(<<1, 4>>, <<250, 1>>), KellySizer(One, <<50, 1>>),
     KellySizer(<<2, 1>>, <<-1, 1>>)}

\* signals by <<market price q, model probability p>>: p above, at and below
\* q, and q at and next to the ends of [0, 1]
PricePairs ==
    {<<<<2, 5>>, <<7, 10>>>>, <<<<3, 5>>, <<3, 5>>>>, <<<<7, 10>>, <<2, 5>>>>,
     <<<<2, 5>>, One>>, <<<<2, 5>>, Zero>>, <<One, One>>,
     <<<<1999999, 2000000>>, <<1999999, 2000000>>>>,
     <<<<1, 2000000>>, <<1, 2000000>>>>}

CashValues == {<<-10, 1>>, Zero, <<1, 100>>, <<10, 1>>, <<100, 1>>, <<1000, 1>>}

\* a call about to be made, with its arguments
SimulateBuyCalls ==
    {[fn |-> "simulate_buy", pc |-> "called", book |-> book, usd_amount |-> usd_amount] :
        book \in FillBooks, usd_amount \in Requests}

SizeCalls ==
    {[fn |-> "size", pc |-> "called", sizer |-> szr, cash |-> cash,
      signal |-> Signal("buy_yes", TokenOf("btc-100k", "buy_yes"), qp[1], qp[2])] :
        szr \in SizerVariants, qp \in PricePairs, cash \in CashValues}

\* --model-config '{"min_edge": x}': the default, a higher and a negative floor
MinEdges == {MinEdge, <<1, 20>>, <<-1, 20>>}

\* end dates a day ahead, now, an hour ago, and one that does not parse
EndDates ==
    {[iso |-> TRUE, secs |-> 86400], [iso |-> TRUE, secs |-> 0],
     [iso |-> TRUE, secs |-> -3600], [iso |-> FALSE, secs |-> 0]}

\* <<yes_mid, no_mid>>: mids that sum to 1, mids that sum to more, and mids
\* that sum to less
MidPairs ==
    {<<<<2, 5>>, <<3, 5>>>>, <<<<2, 5>>, <<7, 10>>>>, <<<<1, 2>>, <<1, 2>>>>,
     <<<<2, 5>>, <<1, 2>>>>}

\* the probability of finishing at or above the strike
ModelProbabilities == {Zero, <<7, 20>>, <<2, 5>>, <<401, 1000>>, <<7, 10>>, One}

EvaluateCalls ==
    {[fn |-> "evaluate", pc |-> "called", min_edge |-> min_edge, p_above |-> p_above,
      market |-> [slug |-> "btc-100k", parsed |-> parsed, kind |-> kind,
                  end_date |-> end_date, yes_mid |-> mids[1], no_mid |-> mids[2]]] :
        min_edge \in MinEdges, p_above \in ModelProbabilities, parsed \in BOOLEAN,
        kind \in {"above_or_hit", "below_or_hit"}, end_date \in EndDates, mids \in MidPairs}

InitCalls ==
    /\ InitLedger /\ sizer = FixedSizer(<<80, 1>>)
    /\ MonitorOff
    /\ call \in SimulateBuyCalls \cup SizeCalls \cup EvaluateCalls

\* a slippage_bps above what the integers of the model hold
OutOfRange == [out_of_range |-> TRUE]

\* line 42 floors top_ask at 1e-9: a first price at or below it gives a
\* slippage of the order of 1e13 basis points
TopFloored(book) ==
    Head(book.asks).price # NULL /\ BelowDust(Head(book.asks).price)

\* FillResult.slippage_bps of the call (NULL when there is no FillResult)
ResultSlippage(book, usd_amount) ==
    IF SimulateBuy(book, usd_amount) = None THEN NULL
    ELSE IF TopFloored(book) THEN OutOfRange
    ELSE SlippageBps(book, usd_amount)

\* FillEngine().simulate_buy(book, usd_amount)
CallSimulateBuy ==
    /\ call.fn = "simulate_buy" /\ call.pc = "called"
    /\ call' = [fn |-> "simulate_buy", pc |-> "returned", book |-> call.book,
                usd_amount |-> call.usd_amount,
                result |-> SimulateBuy(call.book, call.usd_amount),
                slippage_bps |-> ResultSlippage(call.book, call.usd_amount)]
    /\ UNCHANGED <<pvars, mvars>>

\* sizer.size(signal, cash); full_kelly is what KellySizer.size puts in the
\* order's metadata
CallSize ==
    /\ call.fn = "size" /\ call.pc = "called"
    /\ call' = [fn |-> "size", pc |-> "returned", sizer |-> call.sizer,
                signal |-> call.signal, cash |-> call.cash,
                result |-> Size(call.sizer, call.signal, call.cash),
                full_kelly |-> FullKelly(call.signal.market_price, call.signal.model_price)]
    /\ UNCHANGED <<pvars, mvars>>

\* KellyGBMModel(min_edge).evaluate(market)
CallEvaluate ==
    /\ call.fn = "evaluate" /\ call.pc = "called"
    /\ call' = [fn |-> "evaluate", pc |-> "returned", min_edge |-> call.min_edge,
                p_above |-> call.p_above, market |-> call.market,
                result |-> Evaluate(call.min_edge, call.market, call.p_above)]
    /\ UNCHANGED <<pvars, mvars>>

NextCalls ==
    \/ CallSimulateBuy
    \/ CallSize
    \/ CallEvaluate

SpecCalls == InitCalls /\ [][NextCalls]_vars

-----------------------------------------------------------------------------
(* Properties of the ledger *)

Ids(tbl) == 1..Len(tbl)
IsOpen(t) == t.status = "open"
IsClosed(t) == t.status = "closed"

\* sum of realized PnL of the closed trades
RealizedPnl(tbl) ==
    SumSeq([k \in Ids(tbl) |-> IF IsClosed(tbl[k]) THEN tbl[k].realized_pnl ELSE Zero])
\* sum of notional of the open trades
OpenNotional(tbl) ==
    SumSeq([k \in Ids(tbl) |-> IF IsOpen(tbl[k]) THEN tbl[k].notional_usd ELSE Zero])
\* sum of notional of all trades ever recorded
RecordedNotional(tbl) == SumSeq([k \in Ids(tbl) |-> tbl[k].notional_usd])
\* sum of what settlement paid out: shares x settlement price of closed trades
PaidOut(tbl) ==
    SumSeq([k \in Ids(tbl) |-> IF IsClosed(tbl[k])
                                THEN Mul(tbl[k].shares, tbl[k].exit_price) ELSE Zero])

\* the step of one resolve command (the only step that stamps a time and
\* leaves no scan running)
ResolveStep == scan.pc = "idle" /\ scan'.pc = "idle" /\ clock' = clock + 1
\* the payout per share the specification gives a side under an outcome
Matches(side, outcome_yes) ==
    (side = "buy_yes" /\ outcome_yes) \/ (side = "buy_no" /\ ~outcome_yes)
\* the trades a step closes
ClosedBy(k) == IsOpen(trades[k]) /\ IsClosed(trades'[k])

\* C1: whenever no command is running on the ledger, cash = starting capital
\* + realized PnL of closed trades - notional of open trades.
CashConservation ==
    scan.pc = "idle" =>
        account.cash = Sub(Add(account.starting_bankroll, RealizedPnl(trades)),
                           OpenNotional(trades))

\* C2: in every persisted state, what has been debited from cash (starting
\* capital + settlement payouts - cash) is the notional of the recorded trades:
\* a debit is there if and only if its trade is.
DebitAtomicWithOpen ==
    Sub(Add(account.starting_bankroll, PaidOut(trades)), account.cash)
        = RecordedNotional(trades)

\* C3: account cash is never negative.
CashNeverNegative == Le(Zero, account.cash)

\* a scan has spent the account down to exactly zero
CashSpentToZero == account.cash = Zero /\ scan.pc = "idle" /\ trades # <<>>

\* C4: a resolve closes every open trade of its slug with settlement price 1
\* when the held side matches the outcome and 0 otherwise, realized PnL =
\* shares x price - notional, and credits cash by the sum of shares x price.
SettlePaysHeldSide ==
    [][ResolveStep =>
          LET slug == emitted'.slug
              Pps(t) == IF Matches(t.side, emitted'.outcome_yes) THEN One ELSE Zero
              mine == {k \in Ids(trades) : IsOpen(trades[k]) /\ trades[k].market_slug = slug}
          IN  /\ Len(trades') = Len(trades)
              /\ \A k \in mine :
                    /\ trades'[k].status = "closed"
                    /\ trades'[k].exit_price = Pps(trades[k])
                    /\ trades'[k].realized_pnl
                          = Sub(Mul(trades[k].shares, Pps(trades[k])), trades[k].notional_usd)
              /\ account'.cash
                    = Add(account.cash,
                          SumSeq([k \in Ids(trades) |->
                                    IF k \in mine THEN Mul(trades[k].shares, Pps(trades[k]))
                                    ELSE Zero]))
    ]_vars

\* the worked example: 200 shares for 80 on buy_yes, settled yes: PnL +120
SettledExample ==
    \E k \in Ids(trades) :
        /\ trades[k].side = "buy_yes"
        /\ trades[k].shares = <<200, 1>>
        /\ trades[k].notional_usd = <<80, 1>>
        /\ IsClosed(trades[k])
        /\ trades[k].exit_price = One
        /\ trades[k].realized_pnl = <<120, 1>>

\* C5: a resolve leaves every trade of another slug as it was and changes
\* cash by exactly the payouts of the trades it closes.
SettleTouchesOnlyItsMarket ==
    [][ResolveStep =>
          /\ Len(trades') = Len(trades)
          /\ \A k \in Ids(trades) :
                trades[k].market_slug # emitted'.slug => trades'[k] = trades[k]
          /\ Sub(account'.cash, account.cash)
                = SumSeq([k \in Ids(trades) |->
                            IF ClosedBy(k) THEN Mul(trades'[k].shares, trades'[k].exit_price)
                            ELSE Zero])
    ]_vars

\* a resolve has closed a trade while an open trade of another market stays
SettledBesideOpenTrade ==
    /\ emitted.command = "resolve"
    /\ emitted.closed # <<>>
    /\ \E k \in Ids(trades) : IsOpen(trades[k]) /\ trades[k].market_slug # emitted.slug

\* C6: trades are created open, are never deleted, change status only from
\* open to closed and only in a resolve, and a closed trade never changes.
TradeLifecycleMonotone ==
    [][/\ Len(trades') >= Len(trades)
       /\ \A k \in Ids(trades') \ Ids(trades) : IsOpen(trades'[k])
       /\ \A k \in Ids(trades) :
             /\ IsClosed(trades[k]) => trades'[k] = trades[k]
             /\ trades'[k] # trades[k] => ClosedBy(k) /\ ResolveStep
             /\ trades'[k].shares = trades[k].shares
             /\ trades'[k].notional_usd = trades[k].notional_usd
    ]_vars

\* a trade closed by an earlier command has lived through a later command
ClosedTradeOutlived ==
    \E k \in Ids(trades) : IsClosed(trades[k]) /\ trades[k].closed_at # <<clock>>

\* C7: a positions command (mark) changes neither the account nor any trade,
\* and run again with the same mid-prices it emits the same valuations.
MarkIsPureRead ==
    [][emitted'.command = "positions" =>
          /\ UNCHANGED <<account, trades, runs>>
          /\ (emitted.command = "positions" /\ emitted'.mids = emitted.mids)
                => emitted'.positions = emitted.positions
    ]_vars

\* a mark has valued at least one open trade
MarkedOpenTrade == emitted.command = "positions" /\ emitted.positions # <<>>

-----------------------------------------------------------------------------
(* Properties of the spread monitor *)

\* a step that is one pass of main's loop
CycleStep == main_pc = "loop" /\ cycle'.run_seq = monitor_runs + 1
MonitoredSlugs == {env.slugs[k] : k \in 1..Len(env.slugs)}
\* the persistence counter of a market
Persistence(gs, slug) == Get(gs.streak_by_slug, slug, 0)
\* the evaluations of a market in a cycle
EvaluationsOf(c, slug) ==
    {c.opportunities[k] : k \in {j \in 1..Len(c.opportunities) : c.opportunities[j].slug = slug}}
\* the market was evaluated in the cycle with net edge at or above threshold
ClearedIn(c, a, slug) == \E o \in EvaluationsOf(c, slug) : Le(a.threshold, o.net_edge)
LoggedSlugs(c, actions) ==
    {c.log[k].slug : k \in {j \in 1..Len(c.log) : c.log[j].action \in actions}}
\* the markets a cycle logged a paper signal for or sent an order for
SignalledSlugs(c) ==
    LoggedSlugs(c, {"paper_trade_signal", "live_order_submitted"})
        \cup {c.orders[k].token[1] : k \in 1..Len(c.orders)}
\* the markets a cycle put to the gate
ConsultedSlugs(c) == LoggedSlugs(c, {"decision"})
\* fewer than five evaluations of the cycle have a higher net edge
AmongTop(c, slug) ==
    \E o \in EvaluationsOf(c, slug) :
       Cardinality({j \in 1..Len(c.opportunities) :
                       Lt(o.net_edge, c.opportunities[j].net_edge)}) < TopCandidates
\* within the cooldown of the market's last signal and without the improvement
CooldownSuppresses(gs, a, run_seq, slug, net_edge) ==
    /\ slug \in DOMAIN gs.last_signal_run
    /\ run_seq - gs.last_signal_run[slug] < a.signal_cooldown_runs
    /\ Lt(Mul(Sub(net_edge, gs.last_signal_edge[slug]), <<10000, 1>>), a.min_improvement_bps)

\* C8: no order with an amount above 5.0 USD is ever handed to the brokerage
\* channel, whatever the command line and the reloaded configuration say; and
\* a candidate whose order would be above the ceiling is, once through the
\* gate, logged as blocked and not submitted.
LiveCeilingRespected ==
    /\ \A k \in 1..Len(cycle.orders) : Le(cycle.orders[k].amount, <<LiveOrderCeiling, 1>>)
    /\ main_pc # "exited" =>
          \A k \in 1..Len(cycle.top) :
             \E r \in {MaybeExecute([cycle.top[k] EXCEPT
                                       !.order_usd = Add(<<LiveOrderCeiling, 1>>, <<1, 100>>),
                                       !.persist_runs = args.min_persist_runs],
                                    [args EXCEPT !.execute_live = TRUE, !.confirm_live = TRUE],
                                    cycle.run_seq,
                                    [gate_state |-> NoGateState, log |-> <<>>, orders |-> <<>>,
                                     accepting |-> 1, raised |-> FALSE])} :
                /\ r.orders = <<>>
                /\ r.gate_state = NoGateState
                /\ Le(args.threshold, cycle.top[k].net_edge)
                      => r.log[Len(r.log)].action = "blocked_live_over_cap"

\* a live order of exactly the ceiling went out
LiveOrderAtCeiling ==
    \E k \in 1..Len(cycle.orders) :
       cycle.orders[k].accepted /\ cycle.orders[k].amount = <<LiveOrderCeiling, 1>>

\* C9: in a cycle the gate is consulted for at most five markets, each among
\* the five highest net edges of the cycle's evaluations, and a paper signal
\* is logged or an order sent only for such a market with net edge at or above
\* threshold, persistence reached and no cooldown suppression.
OnlyTopCandidatesSignal ==
    [][CycleStep =>
          /\ Cardinality(ConsultedSlugs(cycle')) <= TopCandidates
          /\ \A s \in ConsultedSlugs(cycle') : AmongTop(cycle', s)
          /\ \A s \in SignalledSlugs(cycle') :
                /\ s \in ConsultedSlugs(cycle')
                /\ \E o \in EvaluationsOf(cycle', s) :
                      /\ Le(args'.threshold, o.net_edge)
                      /\ Persistence(gate_state, s) + 1 >= args'.min_persist_runs
                      /\ ~CooldownSuppresses(gate_state, args', cycle'.run_seq, s, o.net_edge)
    ]_vars

\* six markets qualified in one cycle; five signalled, the sixth did not
SixthQualifierLeftOut ==
    /\ cycle.result = "summary"
    /\ Cardinality(SignalledSlugs(cycle)) = TopCandidates
    /\ \E k \in 1..Len(cycle.opportunities) :
          /\ k > TopCandidates
          /\ Le(args.threshold, cycle.opportunities[k].net_edge)
          /\ cycle.opportunities[k].persist_runs >= args.min_persist_runs
          /\ cycle.opportunities[k].slug \notin SignalledSlugs(cycle)

\* C10: after a cycle that ran to its summary, every market's persistence
\* counter is its previous value plus one if the market was evaluated in the
\* cycle with net edge at or above the acting threshold, and zero otherwise
\* (not evaluated included); the persistence reported for an evaluated market
\* is that counter.
PersistenceCounterRule ==
    [][(CycleStep /\ cycle'.result = "summary") =>
          /\ \A s \in MonitoredSlugs :
                Persistence(gate_state', s) =
                    IF ClearedIn(cycle', args', s) THEN Persistence(gate_state, s) + 1 ELSE 0
          /\ \A k \in 1..Len(cycle'.opportunities) :
                cycle'.opportunities[k].persist_runs =
                    Persistence(gate_state', cycle'.opportunities[k].slug)
    ]_vars

\* one market's counter stands at two while another market, evaluated in an
\* earlier cycle, was not evaluated in this one and stands at zero
PersistenceCountedAndReset ==
    /\ cycle.result = "summary"
    /\ \E s, t \in MonitoredSlugs :
          /\ Persistence(gate_state, s) = 2
          /\ t \in DOMAIN gate_state.streak_by_slug
          /\ gate_state.streak_by_slug[t] = 0
          /\ EvaluationsOf(cycle, t) = {}

\* C11: a paper signal is logged or an order sent for a market in a cycle only
\* if the market was evaluated at or above the acting threshold in each of the
\* last min_persist_runs cycles, the current one included (so with
\* min_persist_runs = 2 never in cycle 1).
FiresOnlyAfterPersistence ==
    \A s \in SignalledSlugs(cycle) :
       /\ Len(journal) >= args.min_persist_runs
       /\ \A k \in (Len(journal) - args.min_persist_runs + 1)..Len(journal) :
             s \in journal[k].cleared

\* the evaluation o is at or above threshold with its persistence reached
Eligible(a, o) == Le(a.threshold, o.net_edge) /\ o.persist_runs >= a.min_persist_runs
\* what the gate does after its three checks: a signal, or a block of live mode
PastTheGate(c, slug) ==
    slug \in SignalledSlugs(c)
             \cup LoggedSlugs(c, {"blocked_missing_confirm_live", "blocked_live_over_cap"})

\* C12: an eligible candidate put to the gate is logged as blocked by cooldown
\* exactly when the cycles since the market's last signal are fewer than
\* signal_cooldown_runs and the improvement of its net edge over that signal's
\* edge, in basis points, is below min_improvement_bps (never when the market
\* has no earlier signal); otherwise it goes past the gate. One cycle after a
\* signal at 0.03 with min_improvement_bps = 25, 0.0305 is blocked and 0.033
\* is not.
CooldownRule ==
    [][CycleStep =>
          \A s \in ConsultedSlugs(cycle') :
             \A o \in EvaluationsOf(cycle', s) :
                Eligible(args', o) =>
                   /\ s \in LoggedSlugs(cycle', {"signal_blocked_cooldown"})
                         <=> CooldownSuppresses(gate_state, args', cycle'.run_seq, s, o.net_edge)
                   /\ s \notin LoggedSlugs(cycle', {"signal_blocked_cooldown"})
                         <=> PastTheGate(cycle', s)
                   /\ (/\ s \in DOMAIN gate_state.last_signal_run
                       /\ gate_state.last_signal_run[s] = cycle'.run_seq - 1
                       /\ gate_state.last_signal_edge[s] = <<3, 100>>
                       /\ args'.signal_cooldown_runs > 1
                       /\ args'.min_improvement_bps = <<25, 1>>)
                         => /\ o.net_edge = <<61, 2000>>
                                  => s \in LoggedSlugs(cycle', {"signal_blocked_cooldown"})
                            /\ o.net_edge = <<33, 1000>> => s \in SignalledSlugs(cycle')
    ]_vars

\* in one cycle, one cycle after both markets signalled at 0.03, the market
\* now at 0.0305 is blocked by cooldown and the market now at 0.033 signals
CooldownBlockedBesideOverride ==
    /\ \E s \in LoggedSlugs(cycle, {"signal_blocked_cooldown"}) :
          /\ \E o \in EvaluationsOf(cycle, s) : o.net_edge = <<61, 2000>>
          /\ gate_state.last_signal_run[s] = cycle.run_seq - 1
          /\ gate_state.last_signal_edge[s] = <<3, 100>>
    /\ \E s \in LoggedSlugs(cycle, {"paper_trade_signal"}) :
          /\ \E o \in EvaluationsOf(cycle, s) : o.net_edge = <<33, 1000>>
          /\ journal[Len(journal) - 1].cleared = MonitoredSlugs
          /\ gate_state.last_signal_run[s] = cycle.run_seq

\* the last-signal state the gate keeps of a market
LastSignal(gs, slug) ==
    <<Get(gs.last_signal_run, slug, NeverSignalledRun), Get(gs.last_signal_edge, slug, NULL)>>
\* the gate's three checks let the evaluation o of the market through
ClearsTheGate(gs, a, run_seq, slug, o) ==
    Eligible(a, o) /\ ~CooldownSuppresses(gs, a, run_seq, slug, o.net_edge)

\* C13: in a cycle, a market put to the gate that is eligible and not
\* suppressed has its last-signal cycle index and net edge set to the cycle's
\* index and its net edge there; every other market's last-signal state is
\* left as it was.
LastSignalFrame ==
    [][CycleStep =>
          \A s \in MonitoredSlugs :
             IF s \in ConsultedSlugs(cycle')
                /\ \E o \in EvaluationsOf(cycle', s) :
                      ClearsTheGate(gate_state, args', cycle'.run_seq, s, o)
             THEN \E o \in EvaluationsOf(cycle', s) :
                     LastSignal(gate_state', s) = <<cycle'.run_seq, o.net_edge>>
             ELSE LastSignal(gate_state', s) = LastSignal(gate_state, s)
    ]_vars

\* the records of a cycle's log that the gate wrote for a market
RECURSIVE GateRecordsOf(_, _)
GateRecordsOf(log, slug) ==
    IF log = <<>> THEN <<>>
    ELSE IF Head(log).slug = slug /\ Head(log).action \notin {"evaluation", "market_error"}
         THEN <<Head(log)>> \o GateRecordsOf(Tail(log), slug)
         ELSE GateRecordsOf(Tail(log), slug)
\* what a reader of those records alone takes the gate's verdict to be
Observed(recs) ==
    IF recs = <<>> \/ recs[1].action # "decision" THEN "nothing"
    ELSE IF Len(recs) = 1
         THEN IF Lt(recs[1].net_edge, recs[1].threshold) THEN "below_threshold" ELSE "unexplained"
    ELSE IF Len(recs) > 2 THEN "ambiguous"
    ELSE IF Lt(recs[1].net_edge, recs[1].threshold) THEN "ambiguous"
    ELSE CASE recs[2].action = "signal_blocked_persistence" -> "persistence"
           [] recs[2].action = "signal_blocked_cooldown" -> "cooldown"
           [] recs[2].action \in {"paper_trade_signal", "live_order_submitted"} -> "fired"
           [] OTHER -> "blocked_live"
\* the gate's verdict on the evaluation o of a market, by the gate's rules
Verdict(gs, a, run_seq, slug, o) ==
    IF Lt(o.net_edge, a.threshold) THEN "below_threshold"
    ELSE IF o.persist_runs < a.min_persist_runs THEN "persistence"
    ELSE IF CooldownSuppresses(gs, a, run_seq, slug, o.net_edge) THEN "cooldown"
    ELSE "through"
Rejections == {"below_threshold", "persistence", "cooldown"}

\* C14: for every candidate put to the gate in a cycle, the records the gate
\* wrote for it tell whether it was rejected and why: a rejection below
\* threshold, for insufficient persistence or by cooldown reads as exactly
\* that rejection (a decision record whose net edge is under its threshold
\* and nothing else; a decision record followed by the one record naming the
\* block), and a candidate that was not rejected reads as none of the three.
RejectionsObservable ==
    [][CycleStep =>
          \A s \in ConsultedSlugs(cycle') :
             \A o \in EvaluationsOf(cycle', s) :
                LET seen == Observed(GateRecordsOf(cycle'.log, s))
                    verdict == Verdict(gate_state, args', cycle'.run_seq, s, o)
                IN  IF verdict \in Rejections THEN seen = verdict
                    ELSE seen \in {"fired", "blocked_live", "unexplained"}
                         /\ (seen = "unexplained"
                               <=> \E k \in 1..Len(cycle'.orders) :
                                      cycle'.orders[k].token[1] = s /\ ~cycle'.orders[k].accepted)
    ]_vars

\* one cycle rejected a market below threshold, another for insufficient
\* persistence and a third by cooldown
ThreeRejectionsInOneCycle ==
    \A v \in Rejections :
       \E s \in ConsultedSlugs(cycle) : Observed(GateRecordsOf(cycle.log, s)) = v

\* the gate has been consulted for the market and has let it through
LetThrough(slug) ==
    \/ slug \in DOMAIN gate_state.last_signal_run
    \/ slug \in ConsultedSlugs(cycle) /\ PastTheGate(cycle, slug)

\* C15: every cash debit and trade record of the ledger, and every order
\* handed to the brokerage channel, is for a market the gate has been
\* consulted for and has let through.
GateBeforeLedgerWrite ==
    /\ \A k \in 1..Len(scan.placed_rows) : LetThrough(scan.placed_rows[k].market_slug)
    /\ \A k \in Ids(trades) : LetThrough(trades[k].market_slug)
    /\ \A k \in 1..Len(cycle.orders) : LetThrough(cycle.orders[k].token[1])

-----------------------------------------------------------------------------
(* Properties of the fill engine and the sizers *)

\* simulate_buy has returned a FillResult
Filled == call.fn = "simulate_buy" /\ call.pc = "returned" /\ call.result # None

\* C16: whenever simulate_buy returns a FillResult, spent <= requested
\* notional, spent > 0, shares > 0 and spent = shares x average price.
FillWithinRequest ==
    Filled =>
        /\ Le(call.result.spent_usd, call.usd_amount)
        /\ Lt(Zero, call.result.spent_usd)
        /\ Lt(Zero, call.result.shares)
        /\ call.result.spent_usd = Mul(call.result.shares, call.result.avg_price)

\* a request of 100 met a book of three usable levels worth 67.5 in all
PartialFillOverThreeLevels ==
    /\ Filled
    /\ call.usd_amount = <<100, 1>>
    /\ call.result.levels_used = 3
    /\ call.result.spent_usd = <<135, 2>>

\* a level with a positive price and a positive size
PositivePriceAndSize(lvl) ==
    /\ lvl.price # NULL /\ lvl.size # NULL
    /\ Lt(Zero, lvl.price) /\ Lt(Zero, lvl.size)
\* the book's levels with the others removed, in the book's order
WithoutBadLevels(asks) == SelectSeq(asks, PositivePriceAndSize)
Capacity(lvl) == Mul(lvl.price, lvl.size)
\* what the levels ahead of level k can take
CapacityAhead(asks, k) == SumSeq([j \in 1..(k - 1) |-> Capacity(asks[j])])
\* what a greedy walk takes from level k of a request
Taken(asks, usd, k) ==
    Min(Capacity(asks[k]), Max(Zero, Sub(usd, CapacityAhead(asks, k))))

\* C17: a FillResult is that of the greedy walk over the levels with positive
\* price and size, in the book's order: each level gives min(what is left of
\* the request, price x size), spent and shares are the sums over the levels,
\* levels-used counts the levels reached before the request was exhausted,
\* and the book with the other levels removed gives the same FillResult
\* ([0.40 x 100, 0.45 x 50] and a request of 50: 100 + 10/0.45 shares, spent
\* 50, 2 levels).
GreedyWalkSkipsBadLevels ==
    Filled =>
        LET good == WithoutBadLevels(call.book.asks) IN
        /\ call.result.spent_usd
              = SumSeq([k \in 1..Len(good) |-> Taken(good, call.usd_amount, k)])
        /\ call.result.shares
              = SumSeq([k \in 1..Len(good) |->
                          Div(Taken(good, call.usd_amount, k), good[k].price)])
        /\ call.result.levels_used
              = Cardinality({k \in 1..Len(good) :
                                Lt(CapacityAhead(good, k), call.usd_amount)})
        /\ call.result.avg_price = Div(call.result.spent_usd, call.result.shares)
        /\ call.result = SimulateBuy(Book(good), call.usd_amount)
        /\ (/\ good = <<Level(<<2, 5>>, <<100, 1>>), Level(<<9, 20>>, <<50, 1>>)>>
            /\ call.usd_amount = <<50, 1>>)
              => /\ call.result.shares = Add(<<100, 1>>, Div(<<10, 1>>, <<9, 20>>))
                 /\ call.result.spent_usd = <<50, 1>>
                 /\ call.result.levels_used = 2

\* the request of 50 walked 0.40 x 100, a level of size zero, then 0.45 x 50
WalkedPastBadLevel ==
    /\ Filled
    /\ call.usd_amount = <<50, 1>>
    /\ call.book.asks = <<Level(<<2, 5>>, <<100, 1>>), Level(<<2, 5>>, Zero),
                          Level(<<9, 20>>, <<50, 1>>)>>
    /\ call.result.levels_used = 2
    /\ call.result.shares = <<1100, 9>>

\* C18: simulate_buy returns none exactly when the book is not a dict with a
\* list of asks, or the request is not positive, or no level has a positive
\* price and a positive size; otherwise it returns a FillResult.
NoneExactlyWhenNothingToBuy ==
    (call.fn = "simulate_buy" /\ call.pc = "returned") =>
        (call.result = None
            <=> \/ ~call.book.is_dict
                \/ ~call.book.asks_is_list
                \/ Le(call.usd_amount, Zero)
                \/ \A k \in 1..Len(call.book.asks) : ~PositivePriceAndSize(call.book.asks[k]))

\* a positive request on a book of three levels, none of them usable,
\* returned none
NoneOnBookOfBadLevels ==
    /\ call.fn = "simulate_buy" /\ call.pc = "returned"
    /\ call.result = None
    /\ call.book.is_dict /\ call.book.asks_is_list
    /\ Len(call.book.asks) = 3
    /\ {call.book.asks[k].price : k \in 1..3} = {Zero, NULL, <<-1, 5>>}
    /\ Lt(Zero, call.usd_amount)

\* a sizer has returned
Sized == call.fn = "size" /\ call.pc = "returned"
\* the notional each variant is specified to compute from cash >= 0
Notional(szr, full_kelly, cash) ==
    CASE szr.name = "fixed" -> Min(szr.usd, cash)
      [] szr.name = "equal_weight" -> Div(cash, <<szr.slots, 1>>)
      [] szr.name = "kelly" -> Min(Min(Mul(cash, Mul(szr.fraction, full_kelly)), szr.max_usd), cash)

\* C19: size() of the fixed, the equal-weight and the fractional-Kelly sizer
\* returns none or an order with 0 < notional <= cash: none when cash <= 0 or
\* the variant's notional is <= 0, and otherwise an order of that notional.
SizedWithinCash ==
    Sized =>
        /\ call.result # None =>
              Lt(Zero, call.result.order_usd) /\ Le(call.result.order_usd, call.cash)
        /\ Le(call.cash, Zero) => call.result = None
        /\ Lt(Zero, call.cash) =>
              LET notional == Notional(call.sizer, call.full_kelly, call.cash) IN
              IF Le(notional, Zero) THEN call.result = None
              ELSE call.result # None /\ call.result.order_usd = notional

\* the fixed sizer of 80 has returned an order of the 10 of cash there is
FixedOrderCutToCash ==
    /\ Sized
    /\ call.sizer = FixedSizer(<<80, 1>>)
    /\ call.cash = <<10, 1>>
    /\ call.result # None
    /\ call.result.order_usd = <<10, 1>>

\* C20: for a market price q in (0, 1) and a model probability p, the full
\* Kelly fraction of the Kelly sizer is in [0, 1], and when p <= q it is 0 and
\* the sizer returns no order.
KellyFractionRule ==
    (/\ Sized
     /\ call.sizer.name = "kelly"
     /\ Lt(Zero, call.signal.market_price)
     /\ Lt(call.signal.market_price, One)) =>
        /\ Le(Zero, call.full_kelly) /\ Le(call.full_kelly, One)
        /\ Le(call.signal.model_price, call.signal.market_price) =>
              call.full_kelly = Zero /\ call.result = None

-----------------------------------------------------------------------------
(* Properties of a cycle under failures *)

\* a scan is inside its loop over the snapshots, at a market
AtMarket == scan.pc = "markets" /\ scan.i <= Len(scan.snapshots)

\* C21: a failure while one market is evaluated does not abort the cycle:
\* whatever happens at a market of a scan, the scan goes on with the next
\* market (the markets already handled keep their place in it).
MarketFailureIsolated ==
    [][AtMarket =>
          /\ scan'.pc = "markets"
          /\ scan'.i = scan.i + 1
          /\ scan'.snapshots = scan.snapshots]_vars

\* the feed of a pass answered the search and the midpoints, and then failed
\* to give the reference market (spot or volatility unavailable)
ReferenceUnavailable(feed) ==
    /\ feed # None
    /\ feed.search = "list"
    /\ feed.midpoints = "ok"
    /\ GetReferenceMarket(feed.quotes) = None

\* every record of the log is a run_error record
OnlyRunErrors(log) == \A k \in 1..Len(log) : log[k].action = "run_error"

\* C22: when the reference data is unavailable in a cycle, the cycle evaluates
\* no market (no opportunity, no order, no record of a market), a run_error
\* record is logged, the pass counts as a run and main goes on as after any
\* pass: it sleeps for the next cycle unless the configured runs are done.
ReferenceFailureAbortsCycleOnly ==
    [][(CycleStep /\ ReferenceUnavailable(cycle'.feed)) =>
          /\ cycle'.result = "run_error"
          /\ cycle'.active_markets = 0
          /\ cycle'.opportunities = <<>>
          /\ cycle'.orders = <<>>
          /\ cycle'.log # <<>>
          /\ OnlyRunErrors(cycle'.log)
          /\ monitor_runs' = monitor_runs + 1
          /\ main_pc' # "exited"
          /\ (args'.loop_secs > 0 /\ monitor_runs' < args'.max_runs => main_pc' = "loop")]_vars

\* the second cycle found no reference data and main is about to run the third
LoopGoesOnAfterReferenceFailure ==
    /\ ReferenceUnavailable(cycle.feed)
    /\ cycle.run_seq = 2
    /\ cycle.result = "run_error"
    /\ monitor_runs = 2
    /\ main_pc = "loop"

\* the log of the cycle holds a run_summary record
Summarised(c) == \E k \in 1..Len(c.log) : c.log[k].action = "run_summary"

\* C23: every cycle that reached its markets emits a run summary, whatever
\* failed inside it (the evaluation of a market, the submission of an order
\* for a candidate).
EveryCycleSummarised ==
    (cycle.feed # None /\ Evaluates(cycle.feed)) =>
        cycle.result = "summary" /\ Summarised(cycle)

\* the log of the cycle holds a run_error record
ErrorReported(c) == \E k \in 1..Len(c.log) : c.log[k].action = "run_error"

\* C24: no pass of the loop ends the deployment: whatever goes wrong in a
\* cycle, the error is reported, the pass counts as a run and main goes on to
\* the next scheduled cycle until the configured number of runs is reached.
NoCycleEndsDeployment ==
    [][CycleStep =>
          /\ main_pc' # "exited"
          /\ monitor_runs' = monitor_runs + 1
          /\ (cycle'.result # "summary" => ErrorReported(cycle'))
          /\ (args'.loop_secs > 0 /\ monitor_runs' < args'.max_runs => main_pc' = "loop")]_vars

\* the last order of the cycle was handed to the channel, which raised
SubmissionFailed(c) == c.orders # <<>> /\ ~c.orders[Len(c.orders)].accepted
\* the market of the cycle's last order
LastOrderSlug(c) == c.orders[Len(c.orders)].token[1]

\* C25: a cycle in which the submission of an order fails logs a run_error
\* record and no submission record for that market, leaves the ledger (cash,
\* trades, runs) as it was, and leaves the failing market's last-signal cycle
\* and edge as they were before the cycle.
SubmissionFailureCorruptsNothing ==
    [][(CycleStep /\ SubmissionFailed(cycle')) =>
          /\ cycle'.result = "run_error"
          /\ ErrorReported(cycle')
          /\ LastOrderSlug(cycle') \notin LoggedSlugs(cycle', {"live_order_submitted"})
          /\ account' = account
          /\ trades' = trades
          /\ runs' = runs
          /\ LastSignal(gate_state', LastOrderSlug(cycle'))
                = LastSignal(gate_state, LastOrderSlug(cycle'))]_vars

\* a cycle sent two orders: the first was accepted and counts as fired in this
\* cycle, the second failed and its market has never fired
SecondSubmissionFailed ==
    /\ Len(cycle.orders) = 2
    /\ cycle.orders[1].accepted
    /\ SubmissionFailed(cycle)
    /\ cycle.result = "run_error"
    /\ LastSignal(gate_state, cycle.orders[1].token[1])[1] = cycle.run_seq
    /\ LastOrderSlug(cycle) \notin DOMAIN gate_state.last_signal_run
    /\ account.cash = account.starting_bankroll

-----------------------------------------------------------------------------
(* Properties of the estimator *)

EvaluateReturned == call.fn = "evaluate" /\ call.pc = "returned"
\* the model's probability of the yes outcome of the market of the call
ModelYes == IF call.market.kind = "below_or_hit" THEN Sub(One, call.p_above) ELSE call.p_above
\* model price - market price of each side
YesEdge == Sub(ModelYes, call.market.yes_mid)
NoEdge == Sub(Sub(One, ModelYes), call.market.no_mid)

\* C26: a signal the estimator returns carries the model price and the market
\* price of its side, edge = model price - market price, and edge >= 0; when
\* neither side has an edge at or above the configured floor, no signal is
\* returned.
SignalEdgeRule ==
    EvaluateReturned =>
        /\ call.result # None =>
              /\ call.result.edge = (IF call.result.side = "buy_yes" THEN YesEdge ELSE NoEdge)
              /\ call.result.edge = Sub(call.result.model_price, call.result.market_price)
              /\ Le(Zero, call.result.edge)
        /\ (Lt(YesEdge, call.min_edge) /\ Lt(NoEdge, call.min_edge)) => call.result = None

\* the resolution timestamp of the market of the call is at or before now
Expired(market) == market.end_date.iso /\ market.end_date.secs <= 0

\* C27: a market whose time to expiry is zero or negative yields no signal.
ExpiredYieldsNoSignal == (EvaluateReturned /\ Expired(call.market)) => call.result = None

-----------------------------------------------------------------------------
(* Properties of a scan's loop over the markets *)

\* what the fills of the running scan have spent so far
SpentInCycle(sc) == SumSeq([k \in 1..Len(sc.placed_rows) |-> sc.placed_rows[k].spent_usd])
\* the step fills an order for the market the scan is at
FillStep == AtMarket /\ scan'.pc = "markets" /\ Len(scan'.placed_rows) = Len(scan.placed_rows) + 1
\* the row a FillStep adds
NewRow == scan'.placed_rows[Len(scan'.placed_rows)]

\* C28: a scan starts from the account's cash with nothing spent; each order
\* it fills is no larger than the cash left after the earlier fills of the
\* scan and the fill spends no more than the order, so the cash left plus what
\* the scan has spent stays the cash of the start, and the cash left never
\* falls below zero: the fills of one scan sum to at most the starting cash.
OrdersWithinRemainingCash ==
    [][/\ (scan.pc = "idle" /\ scan'.pc = "markets") =>
             scan'.cash = account.cash /\ scan'.placed_rows = <<>>
       /\ FillStep =>
             /\ Le(NewRow.order_usd, scan.cash)
             /\ Le(NewRow.spent_usd, NewRow.order_usd)
             /\ account'.cash = scan'.cash
       /\ (scan.pc # "idle" /\ scan'.pc # "idle") =>
             /\ Add(scan'.cash, SpentInCycle(scan')) = Add(scan.cash, SpentInCycle(scan))
             /\ Le(Zero, scan'.cash)]_vars

\* the second fill of a scan took all the cash the first had left, which was
\* less than the first order
SecondOrderTookTheRest ==
    /\ Len(scan.placed_rows) = 2
    /\ scan.placed_rows[2].order_usd = Add(scan.cash, scan.placed_rows[2].spent_usd)
    /\ Lt(scan.placed_rows[2].order_usd, scan.placed_rows[1].order_usd)
    /\ scan.cash = Zero

\* the order the sizer returns for what the estimator makes of the input
\* (None when there is no signal or no order)
SizedFor(szr, cash, slug, inp) ==
    IF Evaluate(MinEdge, Snapshot(slug, inp), inp.p_above) = None THEN None
    ELSE Size(szr, Evaluate(MinEdge, Snapshot(slug, inp), inp.p_above), cash)

\* the market has a signal and one of the four reasons to skip it: the sizer
\* returns no order, the order is above the cash, there is no book, or the
\* fill simulator returns none
SkipCause(seen, szr, cash, slug) ==
    /\ Evaluate(MinEdge, Snapshot(slug, seen.inp), seen.inp.p_above) # None
    /\ \E order \in {SizedFor(szr, cash, slug, seen.inp)} :
          IF order = None THEN TRUE
          ELSE IF Lt(cash, order.order_usd) THEN TRUE
          ELSE IF seen.book = None THEN TRUE
          ELSE seen.book # NotFetched /\ SimulateBuy(seen.book, order.order_usd) = None

\* C29: an iteration of a scan for a market with a signal for which the sizer
\* returns no order, the order is above the current cash, the book is not
\* available or the fill simulator returns none places no row (so no trade is
\* recorded for it), changes neither the scan's cash nor the account nor the
\* trades, reports no error, and leaves the scan at the next market.
SkippedMarketChangesNothing ==
    [][(AtMarket /\ scan'.pc = "markets"
          /\ SkipCause(scan'.seen, sizer, scan.cash, scan.snapshots[scan.i])) =>
          /\ scan'.placed_rows = scan.placed_rows
          /\ scan'.cash = scan.cash
          /\ account' = account
          /\ trades' = trades
          /\ emitted' = emitted
          /\ scan'.i = scan.i + 1
          /\ scan'.snapshots = scan.snapshots]_vars

\* the first market of a scan was filled, the second had a signal and an
\* order but no book, and the scan is through its markets with one row
SkippedForLackOfBook ==
    /\ scan.pc = "markets"
    /\ scan.i = 3
    /\ Len(scan.placed_rows) = 1
    /\ scan.placed_rows[1].market_slug = scan.snapshots[1]
    /\ scan.seen # None
    /\ scan.seen.book = None
    /\ SizedFor(sizer, scan.cash, scan.snapshots[2], scan.seen.inp) # None

-----------------------------------------------------------------------------
(* Properties of a fill's slippage *)

\* simulate_buy has returned a FillResult
FillReturned == call.fn = "simulate_buy" /\ call.pc = "returned" /\ call.result # None
\* the first level of the book carries a price above the floor of line 42
FirstPricePresent(asks) == asks[1].price # NULL /\ ~BelowDust(asks[1].price)
\* every level is usable and no level is priced below the one before it
ValidSorted(asks) ==
    /\ \A k \in 1..Len(asks) : Usable(asks[k])
    /\ \A k \in 1..(Len(asks) - 1) : Le(asks[k].price, asks[k + 1].price)
\* the levels the fill consumed are all priced as the first
OnlyFirstPriceConsumed(asks, fill) ==
    \A k \in 1..fill.levels_used : asks[k].price = asks[1].price

-----------------------------------------------------------------------------
(* Properties of mark *)

\* the last command was a mark and its output is there
Marked == emitted.command = "positions"
\* the ids of the trades the mark returned a valuation for, in its order
MarkedIds == [k \in 1..Len(emitted.positions) |-> emitted.positions[k].trade.id]
\* the valuation is the one of trade t at the price of its token
ValuesAt(v, t, mid) ==
    /\ v.trade = t
    /\ v.mark_price = mid
    /\ v.mark_value = Mul(t.shares, mid)
    /\ v.unrealized_pnl = Sub(Mul(t.shares, mid), t.notional_usd)
\* exactly one valuation for each trade of ids, and no other valuation
OneValuationEach(ids) ==
    /\ \A k \in 1..Len(emitted.positions) : MarkedIds[k] \in ids
    /\ \A id \in ids : Cardinality({k \in 1..Len(emitted.positions) : MarkedIds[k] = id}) = 1
    /\ \A k \in 1..Len(emitted.positions) :
          ValuesAt(emitted.positions[k], trades[MarkedIds[k]],
                   emitted.mids[trades[MarkedIds[k]].token_id])

\* C31: a mark returns one valuation for every open trade and none for a
\* closed trade, with mark value = shares x current price of the held token
\* and unrealized PnL = mark value - notional.
MarkValuesEveryOpenTrade ==
    Marked => OneValuationEach({k \in Ids(trades) : IsOpen(trades[k])})

\* the open trades whose token has a midpoint
PricedOpenIds ==
    {k \in Ids(trades) : IsOpen(trades[k]) /\ emitted.mids[trades[k].token_id] # NULL}

\* C31, amended: a mark returns one valuation for every open trade whose
\* token's midpoint is available, and none for a closed trade or for an open
\* trade without a midpoint, with mark value = shares x midpoint of the held
\* token and unrealized PnL = mark value - notional.
MarkValuesPricedOpenTrades == Marked => OneValuationEach(PricedOpenIds)

\* a mark valued an open trade beside a closed trade and an open trade whose
\* midpoint was not available
MarkedBesideClosedAndUnpriced ==
    /\ Marked
    /\ emitted.positions # <<>>
    /\ \E k \in Ids(trades) : IsClosed(trades[k])
    /\ \E k \in Ids(trades) : IsOpen(trades[k]) /\ emitted.mids[trades[k].token_id] = NULL

-----------------------------------------------------------------------------
(* Properties of the fractional-Kelly sizer *)

\* <<fraction, max_usd>> as configured, inside and outside their ranges
KellyConfigs == {<<<<1, 4>>, <<250, 1>>>>, <<One, <<50, 1>>>>, <<<<2, 1>>, <<-1, 1>>>>}
\* x brought into [0, 1]; x brought into [0, inf)
Clamp01(x) == IF Lt(x, Zero) THEN Zero ELSE IF Lt(One, x) THEN One ELSE x
ClampPositive(x) == IF Lt(x, Zero) THEN Zero ELSE x
\* min(cash x fraction x f*, maximum, cash) for a configuration
KellyNotional(cfg, full_kelly, cash) ==
    Min(Min(Mul(cash, Mul(Clamp01(cfg[1]), full_kelly)), ClampPositive(cfg[2])), cash)
\* the notional of an order, 0 when there is none
OrderOrZero(order) == IF order = None THEN Zero ELSE order.order_usd
\* a call of size() on the Kelly sizer has returned
KellySized == call.fn = "size" /\ call.pc = "returned" /\ call.sizer.name = "kelly"

\* C32: the Kelly sizer configured with <<fraction, maximum>> returns the order
\* of notional min(cash x fraction x f*, maximum, cash), with the fraction
\* brought into [0, 1] and the maximum into [0, inf), when that is positive and
\* none otherwise; the notional never exceeds the maximum and is no smaller
\* than the one the same sizer returns for the same signal on less cash.
KellyNotionalRule ==
    KellySized =>
        /\ \E cfg \in KellyConfigs : call.sizer = KellySizer(cfg[1], cfg[2])
        /\ \A cfg \in KellyConfigs :
           call.sizer = KellySizer(cfg[1], cfg[2]) =>
              /\ IF Le(KellyNotional(cfg, call.full_kelly, call.cash), Zero)
                 THEN call.result = None
                 ELSE /\ call.result # None
                      /\ call.result.order_usd = KellyNotional(cfg, call.full_kelly, call.cash)
              /\ Le(OrderOrZero(call.result), ClampPositive(cfg[2]))
              /\ \A less \in CashValues :
                    Le(less, call.cash) =>
                       Le(OrderOrZero(Size(call.sizer, call.signal, less)),
                          OrderOrZero(call.result))

\* the Kelly sizer of fraction 1 and maximum 50 on a cash of 1000: the order is
\* the maximum, below cash x fraction x f*
KellyOrderCutToMaximum ==
    /\ KellySized
    /\ call.sizer = KellySizer(One, <<50, 1>>)
    /\ call.cash = <<1000, 1>>
    /\ call.result # None
    /\ call.result.order_usd = <<50, 1>>
    /\ Lt(<<50, 1>>, Mul(call.cash, call.full_kelly))

-----------------------------------------------------------------------------
(* Properties of main's loop *)

\* main has run at least one cycle and runs no more
LoopEnded == main_pc = "returned" \/ (main_pc = "exited" /\ journal # <<>>)

\* C33: when main runs no more cycles, it has run exactly one cycle with
\* looping disabled and exactly max_runs cycles with looping enabled and
\* max_runs > 0, failed cycles included; and the cycles of the log carry the
\* indices 1, 2, 3, ... in this order, failed cycles included.
LoopRunsConfiguredCycles ==
    /\ LoopEnded =>
          IF args.loop_secs <= 0 THEN Len(journal) = 1
          ELSE args.max_runs > 0 => Len(journal) = args.max_runs
    /\ \A k \in 1..Len(journal) : journal[k].run_seq = k

-----------------------------------------------------------------------------
(* Properties of the reference market *)

\* the feed of a pass answered the search and the midpoints and gave the spot
ReachedReference(feed) ==
    feed # None /\ feed.search = "list" /\ feed.midpoints = "ok" /\ feed.quotes.spot # NULL

-----------------------------------------------------------------------------
(* Properties of commands interleaved on one ledger *)

\* C35: debits and credits are serialized, no cash update is lost: when the
\* steps of a scan and of settles interleave on one ledger, the cash a fill
\* writes is the cash the ledger held just before less what the fill spent
\* (so the credit of a settle committed since the scan began stays in it).
NoCashUpdateLost ==
    [][FillStep => account'.cash = Sub(account.cash, NewRow.spent_usd)]_vars

-----------------------------------------------------------------------------
(* Properties of repeated settlement *)

\* a resolve of the slug that the command just before it resolved
SecondResolve ==
    ResolveStep /\ emitted.command = "resolve" /\ emitted'.slug = emitted.slug

\* C36: a settle of a slug right after a settle of the same slug, with the
\* same or the opposite outcome, closes no trade and returns an empty list,
\* and leaves the cash and every trade (status, settlement price, realized
\* PnL, closing time) as they were.
SettleIsIdempotent ==
    [][SecondResolve =>
          /\ emitted'.closed = <<>>
          /\ emitted'.ok
          /\ account' = account
          /\ trades' = trades]_vars

\* a settle closed nothing one command after a settle of the same slug with
\* the opposite outcome had paid a trade 1 per share
SettledAgainWithOtherOutcome ==
    /\ emitted.command = "resolve"
    /\ emitted.closed = <<>>
    /\ \E k \in Ids(trades) :
          /\ trades[k].market_slug = emitted.slug
          /\ IsClosed(trades[k])
          /\ trades[k].closed_at = <<clock - 1>>
          /\ trades[k].exit_price = One
          /\ ~Matches(trades[k].side, emitted.outcome_yes)

-----------------------------------------------------------------------------
(* Properties of the live switches *)

\* the markets a cycle logged as blocked for the missing confirmation
UnconfirmedSlugs(c) == LoggedSlugs(c, {"blocked_missing_confirm_live"})

\* C37: a cycle hands an order to the brokerage channel, or logs one as
\* submitted, only if for that cycle execute_live and confirm_live are set and
\* paper_only is not; without execute_live a signal that fires is logged as a
\* paper signal only; with execute_live and without confirm_live nothing is
\* submitted and the last-signal cycle and edge of the blocked market stay as
\* they were.
LiveNeedsBothSwitches ==
    [][CycleStep =>
          /\ (cycle'.orders # <<>> \/ LoggedSlugs(cycle', {"live_order_submitted"}) # {}) =>
                args'.execute_live /\ args'.confirm_live /\ ~args'.paper_only
          /\ ~args'.execute_live =>
                /\ cycle'.orders = <<>>
                /\ LoggedSlugs(cycle', {"live_order_submitted", "blocked_missing_confirm_live",
                                        "blocked_live_over_cap"}) = {}
          /\ (args'.execute_live /\ ~args'.confirm_live) =>
                /\ cycle'.orders = <<>>
                /\ LoggedSlugs(cycle', {"paper_trade_signal"}) = {}
                /\ \A s \in UnconfirmedSlugs(cycle') :
                      LastSignal(gate_state', s) = LastSignal(gate_state, s)]_vars

\* a cycle with execute_live set and confirm_live taken back by the runtime
\* configuration blocked a market that had cleared the gate, and sent nothing
BlockedForMissingConfirm ==
    /\ args.execute_live
    /\ ~args.confirm_live
    /\ UnconfirmedSlugs(cycle) # {}
    /\ cycle.orders = <<>>
    /\ \A s \in UnconfirmedSlugs(cycle) : s \notin DOMAIN gate_state.last_signal_run

-----------------------------------------------------------------------------
(* Properties of the persistence counter *)

\* the number of consecutive cycles, ending with the last one journalled, in
\* which the market slug was evaluated at or above the acting threshold
RECURSIVE ClearedRun(_, _)
ClearedRun(j, slug) ==
    IF j = <<>> \/ slug \notin j[Len(j)].cleared
    THEN 0
    ELSE 1 + ClearedRun(SubSeq(j, 1, Len(j) - 1), slug)

\* C38: over a cycle a market's persistence counter grows by at most 1, it
\* never exceeds the number of cycles run, and the persistence reported for a
\* market is the number of consecutive most recent cycles in which its net edge
\* was at or above the threshold.
PersistenceCountsClearedRun ==
    [][CycleStep =>
          /\ \A s \in DOMAIN gate_state'.streak_by_slug :
                /\ gate_state'.streak_by_slug[s] <= Len(journal')
                /\ gate_state'.streak_by_slug[s]
                      <= 1 + (IF s \in DOMAIN gate_state.streak_by_slug
                              THEN gate_state.streak_by_slug[s] ELSE 0)
          /\ \A k \in 1..Len(cycle'.opportunities) :
                cycle'.opportunities[k].persist_runs
                   = ClearedRun(journal', cycle'.opportunities[k].slug)]_vars

-----------------------------------------------------------------------------
(* Properties of partial fills in the ledger *)

\* what the levels of the book with a positive price and size can take together
BookCapacity(book) ==
    SumSeq([k \in 1..Len(WithoutBadLevels(book.asks)) |->
               Capacity(WithoutBadLevels(book.asks)[k])])
\* one insert_trade of a scan
InsertStep == scan.pc = "trades" /\ Len(trades') = Len(trades) + 1
\* the placed row it writes and the row of the trades table it makes
InsertedRow == scan.placed_rows[scan.i]
NewTrade == trades'[Len(trades')]

\* C39: when the book fetched for an order can take less than the order, the
\* fill spends exactly the book's capacity and the scan debits the cash by that
\* amount; the trade recorded for a fill that spent less than its order has the
\* spent amount, not the order, as its notional, and its notional is its shares
\* times its entry price.
PartialFillDebitsWhatWasFilled ==
    [][/\ (FillStep /\ Lt(BookCapacity(scan'.seen.book), NewRow.order_usd)) =>
             /\ NewRow.spent_usd = BookCapacity(scan'.seen.book)
             /\ account'.cash = Sub(account.cash, BookCapacity(scan'.seen.book))
             /\ NewRow.spent_usd = Mul(NewRow.shares, NewRow.entry_price)
       /\ (InsertStep /\ Lt(InsertedRow.spent_usd, InsertedRow.order_usd)) =>
             /\ NewTrade.notional_usd = InsertedRow.spent_usd
             /\ NewTrade.notional_usd # InsertedRow.order_usd
             /\ NewTrade.notional_usd = Mul(NewTrade.shares, NewTrade.entry_price)]_vars

\* an order of 50 met a book of 0.60 x 50 and 0.65 x 20: the trade is recorded
\* at 43 and the cash of 100 is down to 57
PartialFillRecorded ==
    /\ trades # <<>>
    /\ trades[Len(trades)].notional_usd = <<43, 1>>
    /\ account.cash = <<57, 1>>
    /\ scan.pc = "trades"
    /\ scan.placed_rows[1].order_usd = <<50, 1>>

\* C40: whenever the yes side or the no side of a market whose question
\* parses has model price - market price at or above the minimum-edge floor,
\* evaluate returns a signal, and for a side whose edge is at or above the
\* floor, whether or not the two mid-prices sum to 1.
EstimatorMissesNoOpportunity ==
    (/\ EvaluateReturned
     /\ call.market.parsed
     /\ (Le(call.min_edge, YesEdge) \/ Le(call.min_edge, NoEdge))) =>
        /\ call.result # None
        /\ Le(call.min_edge, call.result.edge)

====
